---- MODULE Spec2Model ----
(***************************************************************************)
(* Local document-store emulator: InMemoryStore (inMemoryStore.ts),        *)
(* EventEmitter, TransactionImpl and LocalSanityClientImpl                 *)
(* (localSanityClient.ts).                                                 *)
(*                                                                         *)
(* A document is a function from field names to values.  Timestamps are    *)
(* naturals: 0 stands for the empty string '' (falsy in JavaScript), a     *)
(* positive number for an ISO-8601 instant.  A field that is not in the    *)
(* DOMAIN of a document reads as undefined.                                *)
(*                                                                         *)
(* documents, listeners and subs are the Store, the emitter and the        *)
(* subscriptions of one client, tx the Transaction it last handed out,     *)
(* config what it was constructed with.  disk is the file system of the    *)
(* process and peer a second client constructed in the same process.       *)
(* queue holds the calls that are suspended at an await, in the order in   *)
(* which they will be resumed.                                             *)
(***************************************************************************)
EXTENDS Integers, Sequences, FiniteSets, TLC

VARIABLES documents, now, listeners, subs, tx, last, config, disk, peer, queue

vars == <<documents, now, listeners, subs, tx, last, config, disk, peer, queue>>

(***************************************************************************)
(* Bounds.                                                                 *)
(***************************************************************************)
MaxClock == 2

MaxMuts == 3

MaxSubs == 2

(***************************************************************************)
(* Values.                                                                 *)
(***************************************************************************)
Ids == {"a", "b"}

Types == {"t1", "t2"}

Undefined == [undefined |-> TRUE]

NoId == "<undefined>"

NoFields == [f \in {} |-> 0]

\* An id that holds a space, as any string may.
SpacedId == "a b"

\* The ids that upload may draw for an asset of a kind,
\* `${assetType}-${Date.now()}-${randomBytes(8).toString('hex')}`: one for
\* each kind, so that a second upload of the kind draws the id again.
AssetIds(assetType) == IF assetType = "file" THEN {"file-1"} ELSE {"image-1"}

\* The keys a Map may hold.
Keys == Ids \cup {SpacedId} \cup AssetIds("file") \cup AssetIds("image")

\* JavaScript truthiness of doc[f] for a timestamp field: undefined and ''
\* are falsy.
Truthy(doc, f) == f \in DOMAIN doc /\ doc[f] # 0

\* Object spread {...a, ...b}: the fields of b win.
Spread(a, b) == b @@ a

\* doc[f] || dflt
OrElse(doc, f, dflt) == IF Truthy(doc, f) THEN doc[f] ELSE dflt

(***************************************************************************)
(* InMemoryStore.  docs is the Map<string, SanityDocument>, a function on  *)
(* Keys whose value is Undefined at a key the Map does not hold.  Each      *)
(* operator returns the new Map, the returned value and the error thrown.  *)
(***************************************************************************)
NewStore == [k \in Keys |-> Undefined]

Has(docs, id) == docs[id] # Undefined

Store_get(docs, id) == docs[id]

Stamp_always(doc, t) == Spread(doc, [_createdAt |-> t, _updatedAt |-> t])

Stamp(doc, t) ==
  Spread(doc, [_createdAt |-> OrElse(doc, "_createdAt", t),
               _updatedAt |-> OrElse(doc, "_updatedAt", t)])

Store_create_overwrite(docs, doc, t) ==
  LET newDoc == Stamp(doc, t)
  IN  [err |-> "none", docs |-> [docs EXCEPT ![newDoc._id] = newDoc], ret |-> newDoc]

Store_create(docs, doc, t) ==
  IF Has(docs, doc._id)
  THEN [err |-> "duplicate", docs |-> docs, ret |-> Undefined]
  ELSE LET newDoc == Stamp(doc, t)
       IN  [err |-> "none", docs |-> [docs EXCEPT ![newDoc._id] = newDoc], ret |-> newDoc]

Store_update_upsert(docs, id, fields, t) ==
  LET existingDoc == IF docs[id] = Undefined THEN [_id |-> id] ELSE docs[id]
      updatedDoc == Spread(Spread(existingDoc, fields), [_updatedAt |-> t])
  IN  [err |-> "none", docs |-> [docs EXCEPT ![id] = updatedDoc], ret |-> updatedDoc]

Store_update(docs, id, fields, t) ==
  LET existingDoc == docs[id]
  IN  IF existingDoc = Undefined
      THEN [err |-> "notfound", docs |-> docs, ret |-> Undefined]
      ELSE LET updatedDoc == Spread(Spread(existingDoc, fields), [_updatedAt |-> t])
           IN  [err |-> "none", docs |-> [docs EXCEPT ![id] = updatedDoc], ret |-> updatedDoc]

Store_delete_all(docs, id) ==
  LET docToDelete == docs[id]
  IN  [err |-> "none",
       docs |-> IF docToDelete # Undefined THEN NewStore ELSE docs,
       ret |-> docToDelete]

Store_delete(docs, id) ==
  LET docToDelete == docs[id]
  IN  [err |-> "none",
       docs |-> IF docToDelete # Undefined THEN [docs EXCEPT ![id] = Undefined] ELSE docs,
       ret |-> docToDelete]

\* query(filterFn): the documents for which filterFn holds, each once; a
\* filterFn is the set of the documents it returns true for.  The Map is
\* iterated in the order of KeyOrder; the order in which its keys were
\* inserted is not kept by this model.
KeyOrder == <<"a", "b", SpacedId, "file-1", "image-1">>

Values(docs) == { docs[k] : k \in { j \in Keys : Has(docs, j) } }

\* doc => doc._type === typeName
IsType(docs, typeName) == { doc \in Values(docs) : doc._type = typeName }

\* () => true
Always(docs) == Values(docs)

Store_query_first(docs, filterFn) ==
  LET held == SelectSeq(KeyOrder, LAMBDA k : Has(docs, k) /\ docs[k] \in filterFn)
  IN  IF held = <<>> THEN <<>> ELSE <<docs[held[1]]>>

Store_query(docs, filterFn) ==
  LET held == SelectSeq(KeyOrder, LAMBDA k : Has(docs, k) /\ docs[k] \in filterFn)
  IN  [i \in 1..Len(held) |-> docs[held[i]]]

Store_clear_first(docs) ==
  [err |-> "none", docs |-> [docs EXCEPT !["a"] = Undefined], ret |-> Undefined]

Store_clear(docs) == [err |-> "none", docs |-> NewStore, ret |-> Undefined]

(***************************************************************************)
(* What the last completed call was, what it was given and what it gave    *)
(* back: the observable outcome of an operation.                           *)
(***************************************************************************)
Outcome(op, id, arg, r) ==
  [op |-> op, id |-> id, arg |-> arg, err |-> r.err, ret |-> r.ret,
   results |-> <<>>, emits |-> <<>>, log |-> <<>>, caught |-> 0]

\* A TransactionImpl: mutations is its pending array.  calls counts the
\* chaining calls made on the current batch and done tells that a batch
\* of at least one mutation was committed and nothing was appended since;
\* neither is read by the program.
NoTx == [live |-> FALSE, mutations |-> <<>>, calls |-> 0, done |-> FALSE]

NewTx == [live |-> TRUE, mutations |-> <<>>, calls |-> 0, done |-> FALSE]

NoSub == [state |-> "unused", query |-> <<>>, params |-> Undefined,
          observer |-> [kind |-> "none", target |-> 0]]

\* DEFAULT_CONFIG, and this.config = { ...DEFAULT_CONFIG, ...config }.
DEFAULT_CONFIG == [localDataPath |-> "", dataset |-> "local", logLevel |-> "info"]

\* The file system: the directories that exist and the files in them.
NoDisk == [dirs |-> {}, files |-> {}]

\* The number of the one subscription of the second client.
PeerSlot == MaxSubs + 1

\* new LocalSanityClientImpl(): a Store and an emitter of its own.
NewPeer == [docs |-> NewStore, listeners |-> <<>>, subs |-> [s \in {PeerSlot} |-> NoSub]]

Init ==
  /\ documents = NewStore
  /\ now = 1
  /\ listeners = <<>>
  /\ subs = [s \in 1..MaxSubs |-> NoSub]
  /\ tx = NoTx
  /\ last = Outcome("new", NoId, Undefined, [err |-> "none", ret |-> Undefined])
  /\ config = DEFAULT_CONFIG
  /\ disk = NoDisk
  /\ peer = NewPeer
  /\ queue = <<>>

\* The clock collaborator: new Date() read later is not earlier.
Tick ==
  /\ now < MaxClock
  /\ now' = now + 1
  /\ UNCHANGED <<documents, listeners, subs, tx, last, config, disk, peer, queue>>

(***************************************************************************)
(* Direct calls on an InMemoryStore.                                       *)
(***************************************************************************)
\* Documents handed to create: with no timestamps, with '' timestamps (as
\* the unit tests pass them) and with timestamps of the caller's own.
StampInputs ==
  { NoFields,
    [_createdAt |-> 0, _updatedAt |-> 0],
    [_createdAt |-> 2, _updatedAt |-> 1],
    [_updatedAt |-> 2] }

StoreDocInputs ==
  { Spread([_id |-> i, _type |-> ty], s) : i \in Ids, ty \in Types, s \in StampInputs }

\* Field sets handed to update.
StoreFieldInputs ==
  { [title |-> "y"],
    NoFields,
    [_id |-> "b"],
    [_type |-> "t2", _createdAt |-> 0, title |-> "y"] }

StoreCreate(doc) ==
  LET r == Store_create(documents, doc, now)
  IN  /\ documents' = r.docs
      /\ last' = Outcome("Store.create", doc._id, doc, r)
      /\ UNCHANGED <<now, listeners, subs, tx, config, disk, peer, queue>>

StoreUpdate(id, fields) ==
  LET r == Store_update(documents, id, fields, now)
  IN  /\ documents' = r.docs
      /\ last' = Outcome("Store.update", id, fields, r)
      /\ UNCHANGED <<now, listeners, subs, tx, config, disk, peer, queue>>

StoreDelete(id) ==
  LET r == Store_delete(documents, id)
  IN  /\ documents' = r.docs
      /\ last' = Outcome("Store.delete", id, Undefined, r)
      /\ UNCHANGED <<now, listeners, subs, tx, config, disk, peer, queue>>

StoreGet(id) ==
  /\ last' = Outcome("Store.get", id, Undefined,
                     [err |-> "none", ret |-> Store_get(documents, id)])
  /\ UNCHANGED <<documents, now, listeners, subs, tx, config, disk, peer, queue>>

\* The outcome of clear notes how many documents the Map held.
StoreClear ==
  LET r == Store_clear(documents)
  IN  /\ documents' = r.docs
      /\ last' = Outcome("Store.clear", NoId,
                         [size |-> Cardinality({k \in Keys : Has(documents, k)})], r)
      /\ UNCHANGED <<now, listeners, subs, tx, config, disk, peer, queue>>

\* Predicates handed to query, by name: the documents of a type, all, none
\* and those that have a title.
Predicates == {"t1", "t2", "all", "none", "titled"}

Accepts(docs, p) ==
  IF p \in Types THEN IsType(docs, p)
  ELSE IF p = "all" THEN Always(docs)
  ELSE IF p = "titled" THEN { doc \in Values(docs) : "title" \in DOMAIN doc }
  ELSE {}

StoreQuery(p) ==
  /\ last' = Outcome("Store.query", NoId, [pred |-> p],
                     [err |-> "none",
                      ret |-> [many |-> Store_query(documents, Accepts(documents, p))]])
  /\ UNCHANGED <<documents, now, listeners, subs, tx, config, disk, peer, queue>>

NextStore ==
  \/ Tick
  \/ \E doc \in StoreDocInputs : StoreCreate(doc)
  \/ \E id \in Ids, fields \in StoreFieldInputs : StoreUpdate(id, fields)
  \/ \E id \in Ids : StoreDelete(id)
  \/ \E id \in Ids : StoreGet(id)
  \/ StoreClear
  \/ \E p \in Predicates : StoreQuery(p)

SpecStore == Init /\ [][NextStore]_vars


(***************************************************************************)
(* Query strings are sequences of tokens: "*" is <<"*">>, the bare id a is *)
(* <<"a">>, the id "a b" is <<"a", " ", "b">>, *[_type == "t1"] is         *)
(* <<"*", "[", "_type", " ", "==", " ", "\"", "t1", "\"", "]">>.           *)
(***************************************************************************)
QAll == <<"*">>

QId(id) == IF id = SpacedId THEN <<"a", " ", "b">> ELSE <<id>>

QType(ty) == <<"*", "[", "_type", " ", "==", " ", "\"", ty, "\"", "]">>

QParam(name) == <<"*", "[", "_type", " ", "==", " ", "$", name, "]">>

Includes(q, tok) == \E i \in 1..Len(q) : q[i] = tok

IsQuote(tok) == tok \in {"\"", "'"}

TypePrefix == <<"*", "[", "_type", " ", "==", " ">>

\* /^\*\[_type == ["']([^"']+)["']\]$/
TypeQueryMatch(q) ==
  /\ Len(q) = 10
  /\ SubSeq(q, 1, 6) = TypePrefix
  /\ IsQuote(q[7]) /\ ~IsQuote(q[8]) /\ IsQuote(q[9])
  /\ q[10] = "]"

\* /^\*\[_type == \$([a-zA-Z_][a-zA-Z0-9_]*)\]$/
TypeParamQueryMatch(q) ==
  /\ Len(q) = 9
  /\ SubSeq(q, 1, 6) = TypePrefix
  /\ q[7] = "$"
  /\ q[8] \notin {"*", "[", "]", " ", "==", "$", "\"", "'"}
  /\ q[9] = "]"

\* params[paramName] is truthy
HasParam(params, name) ==
  params # Undefined /\ name \in DOMAIN params /\ params[name] # ""

\* The first test of listenerCallback: the query is taken for a document id.
ListenById(query) == ~Includes(query, "[") /\ query # QAll

\* The first test of fetch: the query is taken for a document id.
FetchById_unnegated(query) ==
  ~Includes(query, " ") /\ Includes(query, "[") /\ query # QAll

FetchById(query) ==
  ~Includes(query, " ") /\ ~Includes(query, "[") /\ query # QAll

\* store.get(query), the query being the key.
GetByQuery(docs, query) ==
  IF \E k \in Keys : QId(k) = query
  THEN Store_get(docs, CHOOSE k \in Keys : QId(k) = query)
  ELSE Undefined

Fetch_param_name_as_type(docs, query, params) ==
  IF FetchById(query)
  THEN [shape |-> "id", one |-> GetByQuery(docs, query), many |-> <<>>]
  ELSE IF TypeQueryMatch(query)
  THEN [shape |-> "type", one |-> Undefined,
        many |-> Store_query(docs, IsType(docs, query[8]))]
  ELSE IF TypeParamQueryMatch(query) /\ params # Undefined
  THEN IF HasParam(params, query[8])
       THEN [shape |-> "typeParam", one |-> Undefined,
             many |-> Store_query(docs, IsType(docs, query[8]))]
       ELSE [shape |-> "typeParam", one |-> Undefined, many |-> <<>>]
  ELSE IF query = QAll
  THEN [shape |-> "all", one |-> Undefined, many |-> Store_query(docs, Always(docs))]
  ELSE [shape |-> "unsupported", one |-> Undefined, many |-> <<>>]

Fetch_unsupported_as_all(docs, query, params) ==
  IF FetchById(query)
  THEN [shape |-> "id", one |-> GetByQuery(docs, query), many |-> <<>>]
  ELSE IF TypeQueryMatch(query)
  THEN [shape |-> "type", one |-> Undefined,
        many |-> Store_query(docs, IsType(docs, query[8]))]
  ELSE IF TypeParamQueryMatch(query) /\ params # Undefined
  THEN IF HasParam(params, query[8])
       THEN [shape |-> "typeParam", one |-> Undefined,
             many |-> Store_query(docs, IsType(docs, params[query[8]]))]
       ELSE [shape |-> "typeParam", one |-> Undefined, many |-> <<>>]
  ELSE [shape |-> "all", one |-> Undefined, many |-> Store_query(docs, Always(docs))]

\* fetch(query, params): which of its branches returned, and what: one is
\* the document or undefined that an id lookup returns, many the array
\* that every other branch returns.
Fetch(docs, query, params) ==
  IF FetchById(query)
  THEN [shape |-> "id", one |-> GetByQuery(docs, query), many |-> <<>>]
  ELSE IF TypeQueryMatch(query)
  THEN [shape |-> "type", one |-> Undefined,
        many |-> Store_query(docs, IsType(docs, query[8]))]
  ELSE IF TypeParamQueryMatch(query) /\ params # Undefined
  THEN IF HasParam(params, query[8])
       THEN [shape |-> "typeParam", one |-> Undefined,
             many |-> Store_query(docs, IsType(docs, params[query[8]]))]
       ELSE [shape |-> "typeParam", one |-> Undefined, many |-> <<>>]
  ELSE IF query = QAll
  THEN [shape |-> "all", one |-> Undefined, many |-> Store_query(docs, Always(docs))]
  ELSE [shape |-> "unsupported", one |-> Undefined, many |-> <<>>]

ListenerDelivers_typed_delete(query, params, ev) ==
  IF ListenById(query)
  THEN query = QId(ev.documentId)
  ELSE IF TypeQueryMatch(query)
  THEN ev.type # "delete" /\ ev.document._type = query[8]
  ELSE IF TypeParamQueryMatch(query) /\ params # Undefined
  THEN HasParam(params, query[8]) /\ ev.type # "delete"
         /\ ev.document._type = params[query[8]]
  ELSE query = QAll

\* listenerCallback: does the subscription's observer get the event?
ListenerDelivers(query, params, ev) ==
  IF ~Includes(query, "[") /\ query # QAll
  THEN query = QId(ev.documentId)
  ELSE IF TypeQueryMatch(query)
  THEN IF ev.type = "delete" THEN TRUE ELSE ev.document._type = query[8]
  ELSE IF TypeParamQueryMatch(query) /\ params # Undefined
  THEN IF HasParam(params, query[8])
       THEN IF ev.type = "delete" THEN TRUE
            ELSE ev.document._type = params[query[8]]
       ELSE FALSE
  ELSE query = QAll

(***************************************************************************)
(* EventEmitter.  The array of 'mutation' listeners is the sequence of     *)
(* subscription numbers in registration order.  A machine state m carries  *)
(* what a running operation reads and writes: the Map, the listener array, *)
(* the subscriptions, the pending array of the transaction, and what the   *)
(* operation has produced so far.                                          *)
(***************************************************************************)
on(ls, s) == Append(ls, s)

off(ls, s) == SelectSeq(ls, LAMBDA cb : cb # s)

\* The handle's unsubscribe(): a handle that does not exist yet cannot be
\* called.
unsubscribe(m, s) ==
  IF m.subs[s].state = "unused" THEN m
  ELSE [m EXCEPT !.listeners = off(@, s), !.subs[s].state = "unsubscribed"]

\* One invocation of an observer: it notes the event and what the Store
\* holds at that moment, then does what the subscriber wrote it to do:
\* nothing more, unsubscribe() on a handle, or tx.delete("a") on the
\* transaction that the caller holds.
Observe(m, s, ev) ==
  LET entry == [sub |-> s, n |-> Len(m.emits), ev |-> ev, seen |-> m.docs,
                unsubscribed |-> m.subs[s].state = "unsubscribed"]
      m1 == [m EXCEPT !.log = Append(@, entry)]
  IN  IF m.subs[s].observer.kind = "unsubscribe"
      THEN unsubscribe(m1, m.subs[s].observer.target)
      ELSE IF m.subs[s].observer.kind = "chain"
      THEN [m1 EXCEPT !.muts = Append(@, [kind |-> "delete", id |-> "a"])]
      ELSE m1

Throws(m, s) == m.subs[s].observer.kind = "throw"

RECURSIVE forEach_nocatch(_, _, _, _)
forEach_nocatch(eventListeners, i, ev, m) ==
  IF i > Len(eventListeners) THEN m
  ELSE LET s == eventListeners[i]
           delivered == ListenerDelivers(m.subs[s].query, m.subs[s].params, ev)
           m1 == IF delivered THEN Observe(m, s, ev) ELSE m
       IN  IF delivered /\ Throws(m, s)
           THEN m1
           ELSE forEach_nocatch(eventListeners, i + 1, ev, m1)

\* eventListeners.forEach(callback => try { callback(data) } catch ...)
\* over the array that was registered when emit began.
RECURSIVE forEach(_, _, _, _)
forEach(eventListeners, i, ev, m) ==
  IF i > Len(eventListeners) THEN m
  ELSE LET s == eventListeners[i]
           delivered == ListenerDelivers(m.subs[s].query, m.subs[s].params, ev)
           m1 == IF delivered THEN Observe(m, s, ev) ELSE m
       IN  IF delivered /\ Throws(m, s)
           THEN forEach(eventListeners, i + 1, ev, [m1 EXCEPT !.caught = @ + 1])
           ELSE forEach(eventListeners, i + 1, ev, m1)

emit(m, ev) ==
  forEach(m.listeners, 1, ev,
          [m EXCEPT !.emits = Append(@, [ev |-> ev, snapshot |-> m.listeners])])

Machine(muts) ==
  [docs |-> documents, listeners |-> listeners, subs |-> subs, muts |-> muts,
   err |-> "none", ret |-> Undefined, results |-> <<>>, emits |-> <<>>,
   log |-> <<>>, caught |-> 0]

(***************************************************************************)
(* TransactionImpl.                                                        *)
(***************************************************************************)
Reserved == {"_id", "_type", "_createdAt", "_updatedAt"}

Patchable_all(fields) == fields

\* const { _id, _type, _createdAt, _updatedAt, ...patchableFields } = fields
Patchable(fields) == [f \in DOMAIN fields \ Reserved |-> fields[f]]

Tx_create(t, document, time) ==
  [t EXCEPT !.mutations = Append(@, [kind |-> "create", document |-> Stamp(document, time)]),
            !.calls = @ + 1, !.done = FALSE]

Tx_patch_keep_empty(t, id, fields) ==
  [t EXCEPT !.mutations = Append(@, [kind |-> "patch", id |-> id,
                                      fields |-> Patchable(fields)]),
            !.calls = @ + 1, !.done = FALSE]

Tx_patch(t, id, fields) ==
  LET patchableFields == Patchable(fields)
  IN  IF DOMAIN patchableFields = {}
      THEN [t EXCEPT !.calls = @ + 1]
      ELSE [t EXCEPT !.mutations = Append(@, [kind |-> "patch", id |-> id,
                                               fields |-> patchableFields]),
                     !.calls = @ + 1, !.done = FALSE]

Tx_delete(t, id) ==
  [t EXCEPT !.mutations = Append(@, [kind |-> "delete", id |-> id]),
            !.calls = @ + 1, !.done = FALSE]

\* The Store call a mutation stands for.
Apply(docs, mutation, time) ==
  IF mutation.kind = "create" THEN Store_create(docs, mutation.document, time)
  ELSE IF mutation.kind = "patch"
  THEN Store_update(docs, mutation.id, mutation.fields, time)
  ELSE Store_delete(docs, mutation.id)

OptId(doc) == IF doc = Undefined THEN NoId ELSE doc._id

\* The entry pushed onto results after the Store call returned r.
Result(mutation, r) ==
  IF mutation.kind = "delete"
  THEN [id |-> mutation.id, operation |-> "delete", documentId |-> OptId(r.ret)]
  ELSE [id |-> r.ret._id, operation |-> mutation.kind, document |-> r.ret]

Event_named_by_kind(mutation, r) ==
  IF mutation.kind = "delete"
  THEN [type |-> "delete", documentId |-> mutation.id]
  ELSE [type |-> mutation.kind, documentId |-> r.ret._id, document |-> r.ret]

\* The event emitted after the Store call returned r.
Event(mutation, r) ==
  IF mutation.kind = "delete"
  THEN [type |-> "delete", documentId |-> mutation.id]
  ELSE [type |-> IF mutation.kind = "create" THEN "create" ELSE "update",
        documentId |-> r.ret._id, document |-> r.ret]

RECURSIVE commit_clear_on_failure(_, _, _)
commit_clear_on_failure(m, i, time) ==
  IF i > Len(m.muts)
  THEN [m EXCEPT !.muts = <<>>]
  ELSE LET mutation == m.muts[i]
           r == Apply(m.docs, mutation, time)
       IN  IF r.err # "none"
           THEN [m EXCEPT !.err = r.err, !.results = <<>>, !.muts = <<>>]
           ELSE commit_clear_on_failure(
                  emit([m EXCEPT !.docs = r.docs,
                                 !.results = Append(@, Result(mutation, r))],
                       Event(mutation, r)),
                  i + 1, time)

RECURSIVE commit_emit_first(_, _, _)
commit_emit_first(m, i, time) ==
  IF i > Len(m.muts)
  THEN [m EXCEPT !.muts = <<>>]
  ELSE LET mutation == m.muts[i]
           r == Apply(m.docs, mutation, time)
       IN  IF r.err # "none"
           THEN [m EXCEPT !.err = r.err, !.results = <<>>]
           ELSE commit_emit_first(
                  [emit([m EXCEPT !.results = Append(@, Result(mutation, r))],
                        Event(mutation, r))
                     EXCEPT !.docs = r.docs],
                  i + 1, time)

RECURSIVE commit_keep_pending(_, _, _)
commit_keep_pending(m, i, time) ==
  IF i > Len(m.muts)
  THEN m
  ELSE LET mutation == m.muts[i]
           r == Apply(m.docs, mutation, time)
       IN  IF r.err # "none"
           THEN [m EXCEPT !.err = r.err, !.results = <<>>]
           ELSE commit_keep_pending(
                  emit([m EXCEPT !.docs = r.docs,
                                 !.results = Append(@, Result(mutation, r))],
                       Event(mutation, r)),
                  i + 1, time)

\* for (const mutation of this.mutations) { ... }, from the i-th on; the
\* pending array is emptied only when the loop ran to its end.
RECURSIVE commit(_, _, _)
commit(m, i, time) ==
  IF i > Len(m.muts)
  THEN [m EXCEPT !.muts = <<>>]
  ELSE LET mutation == m.muts[i]
           r == Apply(m.docs, mutation, time)
       IN  IF r.err # "none"
           THEN [m EXCEPT !.err = r.err, !.results = <<>>]
           ELSE commit(emit([m EXCEPT !.docs = r.docs,
                                      !.results = Append(@, Result(mutation, r))],
                            Event(mutation, r)),
                       i + 1, time)

(***************************************************************************)
(* LocalSanityClientImpl.                                                  *)
(***************************************************************************)
Client_create_emit_input(m, document, time) ==
  LET r == Store_create(m.docs, Stamp(document, time), time)
  IN  IF r.err # "none"
      THEN [m EXCEPT !.err = r.err]
      ELSE [emit([m EXCEPT !.docs = r.docs],
                 [type |-> "create", documentId |-> document._id, document |-> document])
              EXCEPT !.ret = r.ret]

Client_create(m, document, time) ==
  LET r == Store_create(m.docs, Stamp(document, time), time)
  IN  IF r.err # "none"
      THEN [m EXCEPT !.err = r.err]
      ELSE [emit([m EXCEPT !.docs = r.docs],
                 [type |-> "create", documentId |-> r.ret._id, document |-> r.ret])
              EXCEPT !.ret = r.ret]

Client_delete_always_emit(m, id) ==
  LET r == Store_delete(m.docs, id)
      m1 == [m EXCEPT !.docs = r.docs,
                      !.results = <<[id |-> IF r.ret # Undefined THEN r.ret._id ELSE id]>>]
  IN  emit(m1, [type |-> "delete", documentId |-> id])

Client_delete(m, id) ==
  LET r == Store_delete(m.docs, id)
      m1 == [m EXCEPT !.docs = r.docs,
                      !.results = <<[id |-> IF r.ret # Undefined THEN r.ret._id ELSE id]>>]
  IN  IF r.ret # Undefined
      THEN emit(m1, [type |-> "delete", documentId |-> id])
      ELSE m1

\* A listenerCallback that the emitter no longer holds is never called
\* again; of its subscription only the fact that it ended is kept.
Ended(sub) == IF sub.state = "unsubscribed" THEN [NoSub EXCEPT !.state = "unsubscribed"]
              ELSE sub

\* What an operation that ran on machine state m leaves behind.  For a
\* commit, arg tells how many chaining calls the batch was built with.
Done(op, id, arg, m) ==
  /\ documents' = m.docs
  /\ listeners' = m.listeners
  /\ subs' = [s \in DOMAIN m.subs |-> Ended(m.subs[s])]
  /\ last' = [op |-> op, id |-> id, arg |-> arg, err |-> m.err, ret |-> m.ret,
              results |-> m.results, emits |-> m.emits, log |-> m.log,
              caught |-> m.caught]

(***************************************************************************)
(* Calls on the client, on its transaction and on subscription handles,    *)
(* each awaited before the next is made.                                   *)
(***************************************************************************)
DocInputs == { [_id |-> "a", _type |-> "t1"], [_id |-> "b", _type |-> "t2"] }

\* Fields handed to patch: a plain field, reserved fields only, and both.
PatchInputs ==
  { [title |-> "y"],
    [_type |-> "t2", _updatedAt |-> 0],
    [_id |-> "b", title |-> "y"] }

ClientCreate(document) ==
  /\ Done("create", document._id, document, Client_create(Machine(<<>>), document, now))
  /\ UNCHANGED <<now, tx, config, disk, peer, queue>>

ClientDelete(id) ==
  /\ Done("delete", id, Undefined, Client_delete(Machine(<<>>), id))
  /\ UNCHANGED <<now, tx, config, disk, peer, queue>>

ClientFetch(query, params) ==
  /\ last' = Outcome("fetch", NoId, [query |-> query, params |-> params],
                     [err |-> "none", ret |-> Fetch(documents, query, params)])
  /\ UNCHANGED <<documents, now, listeners, subs, tx, config, disk, peer, queue>>

ClientGetDocument(id) ==
  /\ last' = Outcome("getDocument", id, Undefined,
                     [err |-> "none", ret |-> Store_get(documents, id)])
  /\ UNCHANGED <<documents, now, listeners, subs, tx, config, disk, peer, queue>>

ClientTransaction ==
  /\ tx' = NewTx
  /\ last' = Outcome("transaction", NoId, Undefined, [err |-> "none", ret |-> Undefined])
  /\ UNCHANGED <<documents, now, listeners, subs, config, disk, peer, queue>>

ClientPatch_on_current(id, fields) ==
  /\ tx' = Tx_patch([tx EXCEPT !.live = TRUE], id, fields)
  /\ last' = Outcome("patch", id, fields, [err |-> "none", ret |-> Undefined])
  /\ UNCHANGED <<documents, now, listeners, subs, config, disk, peer, queue>>

ClientPatch(id, fields) ==
  /\ tx' = Tx_patch(NewTx, id, fields)
  /\ last' = Outcome("patch", id, fields, [err |-> "none", ret |-> Undefined])
  /\ UNCHANGED <<documents, now, listeners, subs, config, disk, peer, queue>>

CanChain == tx.live /\ tx.calls < MaxMuts

TxCreate(document) ==
  /\ CanChain
  /\ tx' = Tx_create(tx, document, now)
  /\ last' = Outcome("Transaction.create", document._id, document,
                     [err |-> "none", ret |-> Undefined])
  /\ UNCHANGED <<documents, now, listeners, subs, config, disk, peer, queue>>

TxPatch(id, fields) ==
  /\ CanChain
  /\ tx' = Tx_patch(tx, id, fields)
  /\ last' = Outcome("Transaction.patch", id, fields, [err |-> "none", ret |-> Undefined])
  /\ UNCHANGED <<documents, now, listeners, subs, config, disk, peer, queue>>

\* A delete that is applied when it is chained.
TxDelete_eager(id) ==
  /\ CanChain
  /\ tx' = Tx_delete(tx, id)
  /\ documents' = Store_delete(documents, id).docs
  /\ last' = Outcome("Transaction.delete", id, Undefined, [err |-> "none", ret |-> Undefined])
  /\ UNCHANGED <<now, listeners, subs, config, disk, peer, queue>>

TxDelete(id) ==
  /\ CanChain
  /\ tx' = Tx_delete(tx, id)
  /\ last' = Outcome("Transaction.delete", id, Undefined, [err |-> "none", ret |-> Undefined])
  /\ UNCHANGED <<documents, now, listeners, subs, config, disk, peer, queue>>

TxCommit ==
  /\ tx.live
  /\ LET m == commit(Machine(tx.mutations), 1, now)
     IN  /\ Done("Transaction.commit", NoId, [calls |-> tx.calls], m)
         /\ tx' = IF m.err = "none"
                  THEN [tx EXCEPT !.mutations = m.muts, !.calls = 0,
                                  !.done = @ \/ m.results # <<>>]
                  ELSE [tx EXCEPT !.mutations = m.muts]
  /\ UNCHANGED <<now, config, disk, peer, queue>>

\* listen(query, params).subscribe(observer), on the first free number
\* among slots.
Subscribe(slots, query, params, observer) ==
  /\ \E s \in slots :
       /\ subs[s].state = "unused"
       /\ \A r \in 1..(s - 1) : subs[r].state # "unused"
       /\ observer.target # s
       /\ subs' = [subs EXCEPT ![s] = [state |-> "active", query |-> query,
                                       params |-> params, observer |-> observer]]
       /\ listeners' = on(listeners, s)
       /\ last' = Outcome("subscribe", NoId, Undefined, [err |-> "none", ret |-> Undefined])
  /\ UNCHANGED <<documents, now, tx, config, disk, peer, queue>>

Unsubscribe(s) ==
  /\ subs[s].state # "unused"
  /\ Done("unsubscribe", NoId, Undefined, unsubscribe(Machine(<<>>), s))
  /\ UNCHANGED <<now, tx, config, disk, peer, queue>>

Recorder == [kind |-> "record", target |-> 0]

Thrower == [kind |-> "throw", target |-> 0]

Unsubscriber(s) == [kind |-> "unsubscribe", target |-> s]

\* The document that transactions patch and delete.
PatchIds == {"a"}

\* Transactions in full, watched by one plain observer.
Next ==
  \/ \E d \in DocInputs : ClientCreate(d)
  \/ \E id \in Ids : ClientDelete(id)
  \/ ClientTransaction
  \/ \E id \in PatchIds, f \in PatchInputs : ClientPatch(id, f)
  \/ \E d \in DocInputs : TxCreate(d)
  \/ \E id \in PatchIds, f \in PatchInputs : TxPatch(id, f)
  \/ \E id \in PatchIds : TxDelete(id)
  \/ TxCommit
  \/ Subscribe({1}, QAll, Undefined, Recorder)
  \/ Unsubscribe(1)

Spec == Init /\ [][Next]_vars

\* Subscriptions in full: observers that throw, observers that unsubscribe
\* another subscription, an id-filtered listener; short transactions.
NextEmit ==
  \/ \E d \in DocInputs : ClientCreate(d)
  \/ \E id \in Ids : ClientDelete(id)
  \/ \E id \in PatchIds : ClientPatch(id, [title |-> "y"])
  \/ \E id \in PatchIds : TxDelete(id)
  \/ TxCommit
  \/ \E o \in {Recorder, Thrower} : Subscribe(1..MaxSubs, QAll, Undefined, o)
  \/ \E s \in 1..MaxSubs : Subscribe(1..MaxSubs, QAll, Undefined, Unsubscriber(s))
  \/ Subscribe(1..MaxSubs, QId("a"), Undefined, Recorder)
  \/ \E s \in 1..MaxSubs : Unsubscribe(s)

SpecEmit == Init /\ [][NextEmit]_vars

\* The facade under a moving clock, with patches that carry every reserved
\* field and one id created, deleted and created again under either type;
\* nobody listens.
FacadeDocInputs == { [_id |-> "a", _type |-> "t1"], [_id |-> "a", _type |-> "t2"] }

FacadePatchInputs ==
  { [_id |-> "b", _type |-> "t2", _createdAt |-> 2, _updatedAt |-> 2, title |-> "z"],
    [title |-> "y"] }

NextFacade ==
  \/ Tick
  \/ \E d \in FacadeDocInputs : ClientCreate(d)
  \/ \E id \in PatchIds : ClientDelete(id)
  \/ ClientTransaction
  \/ \E id \in PatchIds, f \in FacadePatchInputs : ClientPatch(id, f)
  \/ \E d \in FacadeDocInputs : TxCreate(d)
  \/ \E id \in PatchIds, f \in FacadePatchInputs : TxPatch(id, f)
  \/ \E id \in PatchIds : TxDelete(id)
  \/ TxCommit

SpecFacade == Init /\ [][NextFacade]_vars

\* Listening and fetching by query: a literal type filter, a parameterized
\* one with and without its parameter, an id that holds a space and a
\* string that is no query.
ListenDocInputs == DocInputs \cup { [_id |-> SpacedId, _type |-> "t1"] }

QBad == <<"*", "[", "]">>

ListenQueries ==
  { [query |-> QType("t1"), params |-> Undefined],
    [query |-> QParam("t"), params |-> [t |-> "t2"]],
    [query |-> QParam("t"), params |-> [u |-> "t1"]],
    [query |-> QId(SpacedId), params |-> Undefined],
    [query |-> QBad, params |-> Undefined] }

NextListen ==
  \/ \E d \in ListenDocInputs : ClientCreate(d)
  \/ \E id \in Keys : ClientDelete(id)
  \/ \E id \in PatchIds : ClientPatch(id, [title |-> "y"])
  \/ TxCommit
  \/ \E q \in ListenQueries : Subscribe(1..MaxSubs, q.query, q.params, Recorder)
  \/ \E s \in 1..MaxSubs : Unsubscribe(s)
  \/ \E q \in ListenQueries : ClientFetch(q.query, q.params)

SpecListen == Init /\ [][NextListen]_vars

\* Fetching by query, in every Store of up to three documents: ids held and
\* not held, literal and parameterized type filters with the parameter
\* given, missing and empty, and strings that are no query.
QUnclosed == <<"*", "[", "_type", " ", "==", " ", "\"", "t1", "\"">>

QNoType == <<"*", "[", "_type", " ", "==", " ", "\"", "\"", "]">>

BadQueries == { QBad, QUnclosed, QNoType, QId(SpacedId) }

ParamInputs == { [t |-> "t1"], [t |-> "t2"], [t |-> ""], [u |-> "t1"], Undefined }

FetchQueries ==
  { [query |-> q, params |-> Undefined] :
      q \in {QId("a"), QId("b"), QAll, QType("t1"), QType("t2")} \cup BadQueries }
  \cup { [query |-> QParam("t"), params |-> p] : p \in ParamInputs }
  \cup { [query |-> QId("a"), params |-> [t |-> "t1"]] }

NextFetch ==
  \/ \E d \in ListenDocInputs : ClientCreate(d)
  \/ \E id \in Keys : ClientDelete(id)
  \/ \E q \in FetchQueries : ClientFetch(q.query, q.params)

SpecFetch == Init /\ [][NextFetch]_vars

LiveIds == { k \in Ids : Has(documents, k) }

(***************************************************************************)
(* Claims about the Store, checked under SpecStore.                        *)
(***************************************************************************)

\* C1: after any sequence of Store operations no two live documents share
\* an _id, and every live document is stored under, and returned by get
\* for, exactly its own _id.
C1_IdsUniqueAndKeyed ==
  /\ \A k \in LiveIds : documents[k]._id = k
  /\ \A j, k \in LiveIds : j # k => documents[j]._id # documents[k]._id
  /\ (last.op = "Store.get" /\ last.ret # Undefined) => last.ret._id = last.id

\* C2: Store.create(d) fails with the duplicate-id error whenever the Store
\* holds a document under d's id, whatever d's other fields are, and the
\* failed call leaves the Store as it was.
C2_DuplicateCreateFails ==
  [][\A doc \in StoreDocInputs :
       (last'.op = "Store.create" /\ StoreCreate(doc) /\ Has(documents, doc._id))
         => (last'.err = "duplicate" /\ documents' = documents)]_vars

\* A create was refused for an id whose stored document has another type
\* and other timestamps than the one offered.
C2_Witness ==
  /\ last.op = "Store.create"
  /\ last.err = "duplicate"
  /\ Has(documents, last.id)
  /\ documents[last.id]._type # last.arg._type
  /\ "_createdAt" \in DOMAIN last.arg
  /\ documents[last.id]._createdAt # last.arg._createdAt

\* C10: a successful Store.update(id, fieldUpdates) leaves the document's
\* _id, _type and _createdAt as they were, even when fieldUpdates holds
\* values for them.
C10_UpdateKeepsReserved ==
  [][\A id \in Ids, fields \in StoreFieldInputs :
       (last'.op = "Store.update" /\ StoreUpdate(id, fields) /\ Has(documents, id))
         => /\ documents'[id]._id = documents[id]._id
            /\ documents'[id]._type = documents[id]._type
            /\ documents'[id]._createdAt = documents[id]._createdAt]_vars

\* C12: every live document has _updatedAt >= _createdAt, in every state
\* reachable by create, update and delete, creates with timestamps of the
\* caller's own included.
C12_UpdatedNotBeforeCreated ==
  \A k \in LiveIds : documents[k]._updatedAt >= documents[k]._createdAt

\* C13: under a clock that does not go back, a successful update gives the
\* document an _updatedAt not smaller than the one it had, and a larger one
\* when the clock has passed the one it had.
C13_UpdatedAtNeverGoesBack ==
  [][\A id \in Ids, fields \in StoreFieldInputs :
       (last'.op = "Store.update" /\ StoreUpdate(id, fields) /\ Has(documents, id))
         => /\ documents'[id]._updatedAt >= documents[id]._updatedAt
            /\ now > documents[id]._updatedAt
                 => documents'[id]._updatedAt > documents[id]._updatedAt]_vars

\* C14: Store.update on an id the Store does not hold fails with the
\* not-found error and leaves the Store as it was: nothing is created under
\* the id and no other document changes.
C14_UpdateOfMissingFails ==
  [][\A id \in Ids, fields \in StoreFieldInputs :
       (last'.op = "Store.update" /\ StoreUpdate(id, fields) /\ ~Has(documents, id))
         => /\ last'.err = "notfound"
            /\ last'.ret = Undefined
            /\ documents' = documents]_vars

\* An update carrying fields was refused for an id the Store does not hold
\* while it holds another document.
C14_Witness ==
  /\ last.op = "Store.update"
  /\ last.err = "notfound"
  /\ ~Has(documents, last.id)
  /\ DOMAIN last.arg # {}
  /\ LiveIds # {}

\* C16: Store.delete(id) on an id the Store holds removes that document and
\* no other and returns it, and a get(id) that follows returns absent;
\* delete and get on an id the Store does not hold return absent, do not
\* raise and leave the Store as it was.
C16_DeleteAndGetOnMissing ==
  [][/\ \A id \in Ids :
          (last'.op = "Store.delete" /\ StoreDelete(id))
            => /\ last'.err = "none"
               /\ last'.ret = documents[id]
               /\ ~Has(documents', id)
               /\ \A k \in Keys \ {id} : documents'[k] = documents[k]
     /\ \A id \in Ids :
          (last'.op = "Store.get" /\ StoreGet(id))
            => /\ last'.err = "none"
               /\ documents' = documents
               /\ ~Has(documents, id) => last'.ret = Undefined
               /\ (last.op = "Store.delete" /\ last.id = id) => last'.ret = Undefined]_vars

\* A delete returned the document it removed and left another one held.
C16_Witness ==
  /\ last.op = "Store.delete"
  /\ last.ret # Undefined
  /\ last.ret._id = last.id
  /\ ~Has(documents, last.id)
  /\ LiveIds # {}

\* What create is to store for doc at time t: doc itself, with a timestamp
\* that is missing or empty set to t.
Defaulted(doc, t) ==
  [f \in DOMAIN doc \cup {"_createdAt", "_updatedAt"} |->
     IF f \in DOMAIN doc /\ ~(f \in {"_createdAt", "_updatedAt"} /\ doc[f] = 0)
     THEN doc[f] ELSE t]

\* C28: for a document d whose id the Store does not hold, create(d) and
\* then get(d._id) return a document equal to d on every field, but for the
\* timestamps that d did not have, which are the current time.
C28_CreateThenGetRoundTrip ==
  [][/\ \A doc \in StoreDocInputs :
          (last'.op = "Store.create" /\ StoreCreate(doc) /\ ~Has(documents, doc._id))
            => /\ last'.err = "none"
               /\ last'.ret = Defaulted(doc, now)
               /\ Store_get(documents', doc._id) = Defaulted(doc, now)
     /\ \A id \in Ids :
          (last'.op = "Store.get" /\ StoreGet(id)) => last'.ret = documents[id]]_vars

\* A create of a document that had an _updatedAt of its own and no
\* _createdAt stored it with that _updatedAt and the current time as
\* _createdAt.
C28_Witness ==
  /\ last.op = "Store.create"
  /\ last.err = "none"
  /\ "_createdAt" \notin DOMAIN last.arg
  /\ "_updatedAt" \in DOMAIN last.arg
  /\ last.arg._updatedAt = 2
  /\ Has(documents, last.id)
  /\ documents[last.id]._updatedAt = 2
  /\ documents[last.id]._createdAt = 1
  /\ documents[last.id]._type = last.arg._type

HeldKeys(p) == { k \in Keys : Has(documents, k) /\ documents[k] \in Accepts(documents, p) }

\* C29: in every Store and for every predicate p, query(p) returns the held
\* documents that satisfy p, each once, none missing and none that fails p,
\* and an empty collection when none does.
C29_QueryReturnsExactlyMatching ==
  [][\A p \in Predicates :
       (last'.op = "Store.query" /\ StoreQuery(p)) =>
         LET got == last'.ret.many
         IN  /\ last'.err = "none"
             /\ { got[i] : i \in 1..Len(got) } = { documents[k] : k \in HeldKeys(p) }
             /\ Len(got) = Cardinality(HeldKeys(p))
             /\ \A i \in 1..Len(got) :
                  /\ p \in Types => got[i]._type = p
                  /\ p = "titled" => "title" \in DOMAIN got[i]
                  /\ p # "none"
             /\ p = "all" => Len(got) = Cardinality({k \in Keys : Has(documents, k)})
             /\ documents' = documents]_vars

\* A query by title returned one of the two documents held, and the query
\* for all would return both.
C29_Witness ==
  /\ last.op = "Store.query"
  /\ last.arg.pred = "titled"
  /\ Len(last.ret.many) = 1
  /\ Cardinality(LiveIds) = 2

\* C30: after clear(), whatever the Store held, every query returns an
\* empty collection, get returns absent for every id and an id that was
\* held can be created again.
C30_ClearEmptiesStore ==
  [][/\ (last'.op = "Store.clear" /\ StoreClear)
          => \A k \in Keys : Store_get(documents', k) = Undefined
     /\ last.op = "Store.clear" =>
          /\ \A p \in Predicates :
               (last'.op = "Store.query" /\ StoreQuery(p)) => last'.ret.many = <<>>
          /\ \A id \in Ids :
               (last'.op = "Store.get" /\ StoreGet(id)) => last'.ret = Undefined
          /\ \A doc \in StoreDocInputs :
               (last'.op = "Store.create" /\ StoreCreate(doc))
                 => last'.err = "none" /\ Has(documents', doc._id)]_vars

\* A clear emptied a Store that held two documents.
C30_Witness ==
  /\ last.op = "Store.clear"
  /\ last.arg.size = 2
  /\ \A k \in Keys : ~Has(documents, k)

(***************************************************************************)
(* Claims about transactions and event dispatch.  The reference run below  *)
(* applies a pending sequence to a Map with the Store's operations alone,  *)
(* stopping at the first one that throws.                                  *)
(***************************************************************************)
RECURSIVE RefRun(_, _, _, _)
RefRun(docs, muts, i, time) ==
  IF i > Len(muts)
  THEN [docs |-> docs, failedAt |-> 0, err |-> "none"]
  ELSE LET r == Apply(docs, muts[i], time)
       IN  IF r.err # "none"
           THEN [docs |-> docs, failedAt |-> i, err |-> r.err]
           ELSE RefRun(r.docs, muts, i + 1, time)

\* The Map after the first n mutations of muts.
DocsAfter(docs, muts, n, time) == RefRun(docs, SubSeq(muts, 1, n), 1, time).docs

TargetId(mutation) ==
  IF mutation.kind = "create" THEN mutation.document._id ELSE mutation.id

EventKind(mutation) ==
  IF mutation.kind = "patch" THEN "update" ELSE mutation.kind

\* The step is a commit: the outcome says so and TxCommit relates the two
\* states.
Committing == last'.op = "Transaction.commit" /\ TxCommit

\* The events handed to the observer of subscription s, in order.
EventsSeenBy(log, s) ==
  LET sel == SelectSeq(log, LAMBDA e : e.sub = s)
  IN  [i \in 1..Len(sel) |-> sel[i].ev]

\* The subscriptions whose observers got the n-th emitted event, in order.
DeliveredTo(log, n) ==
  LET sel == SelectSeq(log, LAMBDA e : e.n = n)
  IN  [i \in 1..Len(sel) |-> sel[i].sub]

Registered(ls) == { ls[i] : i \in 1..Len(ls) }

\* C3: when commit fails at its k-th mutation the error reaches the caller,
\* mutations 1..k-1 stay applied, mutations k..N are not applied, events
\* were emitted for exactly mutations 1..k-1, and the pending sequence is
\* left as it was.
C3_FailedCommitKeepsPrefix ==
  [][Committing =>
       LET muts == tx.mutations
           ref == RefRun(documents, muts, 1, now)
           k == ref.failedAt
       IN  k > 0 =>
             /\ last'.err = ref.err
             /\ last'.err # "none"
             /\ documents' = DocsAfter(documents, muts, k - 1, now)
             /\ Len(last'.emits) = k - 1
             /\ \A j \in 1..(k - 1) :
                  /\ last'.emits[j].ev.type = EventKind(muts[j])
                  /\ last'.emits[j].ev.documentId = TargetId(muts[j])
             /\ tx'.mutations = muts]_vars

\* A commit of three mutations failed at the second: one event, the first
\* mutation applied, all three still pending.
C3_Witness ==
  /\ last.op = "Transaction.commit"
  /\ last.err # "none"
  /\ Len(last.emits) = 1
  /\ Len(tx.mutations) = 3
  /\ Has(documents, TargetId(tx.mutations[1]))

\* C4: committing a Transaction with N mutations delivers exactly N events
\* to an active all-documents subscriber, the i-th with the kind (create,
\* update for patch, delete) and the target id of the i-th mutation.
C4_CommitEmitsPerMutation ==
  [][(Committing /\ last'.err = "none") =>
       \A s \in 1..MaxSubs :
         (subs[s].state = "active" /\ subs[s].query = QAll /\ subs'[s].state = "active")
           => LET got == EventsSeenBy(last'.log, s)
              IN  /\ Len(got) = Len(tx.mutations)
                  /\ \A i \in 1..Len(got) :
                       /\ got[i].type = EventKind(tx.mutations[i])
                       /\ got[i].documentId = TargetId(tx.mutations[i])]_vars

\* A subscriber got a create, an update and a delete event from one commit.
C4_Witness ==
  /\ last.op = "Transaction.commit"
  /\ last.err = "none"
  /\ \E s \in 1..MaxSubs :
       LET got == EventsSeenBy(last.log, s)
       IN  /\ Len(got) = 3
           /\ {got[i].type : i \in 1..3} = {"create", "update", "delete"}

\* C5: in a commit that no other operation overlaps, the event for the i-th
\* mutation is delivered when exactly mutations 1..i are applied: that is
\* what a subscriber reading the Store inside its callback sees.
C5_EventBetweenSteps ==
  [][Committing =>
       \A i \in 1..Len(last'.log) :
         last'.log[i].seen = DocsAfter(documents, tx.mutations, last'.log[i].n, now)]_vars

\* A subscriber saw, at the first event of a commit, a Store that differs
\* both from the one before the commit and from the one after it.
C5_Witness ==
  /\ last.op = "Transaction.commit"
  /\ Len(last.emits) >= 2
  /\ last.log # <<>>
  /\ last.log[1].n = 1
  /\ last.log[1].seen # documents
  /\ Has(last.log[1].seen, last.log[1].ev.documentId)

\* C6 as stated: a successful commit returns exactly one entry per chaining
\* call (create, patch, delete) made on the Transaction.
C6_ResultsPerChainedCall ==
  [][(Committing /\ last'.err = "none") => Len(last'.results) = tx.calls]_vars

Appended(id, kind) ==
  /\ Len(tx'.mutations) = Len(tx.mutations) + 1
  /\ SubSeq(tx'.mutations, 1, Len(tx.mutations)) = tx.mutations
  /\ tx'.mutations[Len(tx'.mutations)].kind = kind
  /\ TargetId(tx'.mutations[Len(tx'.mutations)]) = id

\* C6 amended: create and delete calls each append one mutation, a patch
\* call appends one if its fields hold a field other than _id, _type,
\* _createdAt, _updatedAt and nothing otherwise; a successful commit returns
\* one entry per pending mutation, in order, the i-th with the target id
\* and kind of the i-th mutation and, for create and patch, the document
\* that mutation produced.
C6_ResultsPerPendingMutation ==
  [][/\ \A d \in DocInputs :
          (last'.op = "Transaction.create" /\ TxCreate(d)) => Appended(d._id, "create")
     /\ \A id \in PatchIds :
          (last'.op = "Transaction.delete" /\ TxDelete(id)) => Appended(id, "delete")
     /\ \A id \in PatchIds, f \in PatchInputs :
          (last'.op = "Transaction.patch" /\ TxPatch(id, f))
            => IF DOMAIN f \subseteq Reserved
               THEN tx'.mutations = tx.mutations
               ELSE Appended(id, "patch")
     /\ (Committing /\ last'.err = "none") =>
          LET muts == tx.mutations
              res == last'.results
          IN  /\ Len(res) = Len(muts)
              /\ \A i \in 1..Len(muts) :
                   /\ res[i].id = TargetId(muts[i])
                   /\ res[i].operation = muts[i].kind
                   /\ muts[i].kind # "delete" =>
                        res[i].document
                          = DocsAfter(documents, muts, i, now)[TargetId(muts[i])]]_vars

\* A commit returned two entries, a create and a patch, for a Transaction
\* on which a third call, a patch of reserved fields only, had been made.
C6_Witness ==
  /\ last.op = "Transaction.commit"
  /\ last.err = "none"
  /\ last.arg.calls = 3
  /\ Len(last.results) = 2
  /\ last.results[1].operation = "create"
  /\ last.results[2].operation = "patch"
  /\ last.results[2].document.title = "y"

DeletesInCommit(id) ==
  /\ Committing
  /\ \E i \in 1..Len(tx.mutations) :
       tx.mutations[i].kind = "delete" /\ tx.mutations[i].id = id

\* C11: whatever fields a patch was given, the committed patch leaves the
\* document's _id, _type and _createdAt as they were and sets _updatedAt to
\* the current time, not to a value of the caller's; so no call on the
\* client or its Transaction changes the _id, _type or _createdAt of a
\* document between its creation and its deletion.
C11_FacadeKeepsReserved ==
  [][/\ \A k \in Ids :
          (Has(documents, k) /\ Has(documents', k) /\ ~DeletesInCommit(k))
            => /\ documents'[k]._id = documents[k]._id
               /\ documents'[k]._type = documents[k]._type
               /\ documents'[k]._createdAt = documents[k]._createdAt
     /\ Committing =>
          \A i \in 1..Len(last'.emits) :
            tx.mutations[i].kind = "patch"
              => /\ last'.emits[i].ev.document._id = tx.mutations[i].id
                 /\ last'.emits[i].ev.document._updatedAt = now]_vars

\* A committed patch that had been given another _id, _type, _createdAt and
\* _updatedAt produced a document with its own id and type, with the
\* creation time it had and the current time as _updatedAt.
C11_Witness ==
  /\ last.op = "Transaction.commit"
  /\ last.err = "none"
  /\ Len(last.results) = 1
  /\ last.results[1].operation = "patch"
  /\ last.results[1].document.title = "z"
  /\ last.results[1].document._id = "a"
  /\ last.results[1].document._type = "t1"
  /\ last.results[1].document._createdAt = 1
  /\ last.results[1].document._updatedAt = now
  /\ now # 2
  /\ documents["a"] = last.results[1].document

\* The step is the commit of the Transaction that the client.patch just made
\* returned, for an id the Store does not hold.
CommittingPatchOfMissing ==
  /\ last.op = "patch"
  /\ ~Has(documents, last.id)
  /\ Committing

\* C15 as stated: for an id the Store does not hold and any fields,
\* client.patch(id, fields) returns a Transaction holding one Patch mutation,
\* and its commit fails with the not-found error and leaves the Store as it
\* was.
C15_PatchOfMissingFails ==
  [][/\ \A id \in PatchIds, f \in PatchInputs :
          (last'.op = "patch" /\ ClientPatch(id, f) /\ ~Has(documents, id))
            => /\ Len(tx'.mutations) = 1
               /\ tx'.mutations[1].kind = "patch"
               /\ tx'.mutations[1].id = id
     /\ CommittingPatchOfMissing
          => last'.err = "notfound" /\ documents' = documents]_vars

\* C15 amended: for an id the Store does not hold, client.patch(id, fields)
\* with fields holding a field other than _id, _type, _createdAt, _updatedAt
\* returns a Transaction holding that one Patch mutation, whose commit fails
\* with the not-found error, emits nothing and leaves the Store as it was;
\* with no such field the Transaction holds no mutation and its commit
\* succeeds with no result, emits nothing and leaves the Store as it was.
C15_PatchOfMissingFailsUnlessEmpty ==
  [][/\ \A id \in PatchIds, f \in PatchInputs :
          (last'.op = "patch" /\ ClientPatch(id, f) /\ ~Has(documents, id))
            => IF DOMAIN f \subseteq Reserved
               THEN tx'.mutations = <<>>
               ELSE /\ Len(tx'.mutations) = 1
                    /\ tx'.mutations[1].kind = "patch"
                    /\ tx'.mutations[1].id = id
                    /\ DOMAIN tx'.mutations[1].fields = DOMAIN f \ Reserved
     /\ CommittingPatchOfMissing
          => /\ documents' = documents
             /\ last'.emits = <<>>
             /\ last'.results = <<>>
             /\ last'.err = IF DOMAIN last.arg \subseteq Reserved
                            THEN "none" ELSE "notfound"]_vars

\* The commit of a Transaction holding one Patch of an id that the Store
\* does not hold, while it holds another document, failed as not found.
C15_Witness ==
  /\ last.op = "Transaction.commit"
  /\ last.err = "notfound"
  /\ last.arg.calls = 1
  /\ Len(tx.mutations) = 1
  /\ tx.mutations[1].kind = "patch"
  /\ ~Has(documents, tx.mutations[1].id)
  /\ LiveIds # {}

\* C8: once unsubscribe() was called on a subscription its observer is
\* invoked for no further event, also when the call is made from inside
\* another subscriber's callback during a dispatch.
C8_NoEventAfterUnsubscribe ==
  \A i \in 1..Len(last.log) : ~last.log[i].unsubscribed

CreatingDoc(d) == last'.op = "create" /\ ClientCreate(d)

DeletingDoc(id) == last'.op = "delete" /\ ClientDelete(id)

Emitting ==
  \/ Committing
  \/ \E d \in DocInputs : CreatingDoc(d)
  \/ \E id \in Ids : DeletingDoc(id)

\* C9: a dispatch invokes every callback registered when it began, in
\* registration order; a callback that throws neither keeps later callbacks
\* from the event nor reaches the emitter, so create, delete and commit end
\* as they would have without it, and the callback stays subscribed.
C9_DispatchSurvivesThrow ==
  [][Emitting =>
       /\ \A n \in 1..Len(last'.emits) :
            DeliveredTo(last'.log, n)
              = SelectSeq(last'.emits[n].snapshot,
                          LAMBDA s : ListenerDelivers(subs[s].query, subs[s].params,
                                                      last'.emits[n].ev))
       /\ Committing =>
            LET ref == RefRun(documents, tx.mutations, 1, now)
            IN  last'.err = ref.err /\ documents' = ref.docs
       /\ \A d \in DocInputs : CreatingDoc(d) =>
            /\ (last'.err = "none") <=> ~Has(documents, d._id)
            /\ Has(documents', d._id)
       /\ \A id \in Ids : DeletingDoc(id) =>
            last'.err = "none" /\ ~Has(documents', id)
       /\ \A s \in Registered(listeners) :
            (subs[s].observer.kind = "throw" /\ subs'[s].state = "active")
              => s \in Registered(listeners')]_vars

\* A commit of two mutations succeeded although an observer threw at both
\* events, and an observer registered after it got both.
C9_Witness ==
  /\ last.op = "Transaction.commit"
  /\ last.err = "none"
  /\ last.caught = 2
  /\ Len(last.emits) = 2
  /\ \E i, j \in 1..Len(last.log) :
       /\ i < j
       /\ last.log[i].n = 2 /\ last.log[j].n = 2
       /\ subs[last.log[i].sub].observer.kind = "throw"
       /\ subs[last.log[j].sub].state = "active"

\* C17: the client's delete(id) emits one delete event, naming id, when the
\* Store held a document under id and it was removed, and no event when it
\* held none; either way it does not raise and returns an envelope holding
\* the id.
C17_DeleteEmitsOnlyIfRemoved ==
  [][\A id \in Ids : DeletingDoc(id) =>
       /\ last'.err = "none"
       /\ last'.results = <<[id |-> id]>>
       /\ \A k \in Keys \ {id} : documents'[k] = documents[k]
       /\ ~Has(documents', id)
       /\ IF Has(documents, id)
          THEN /\ Len(last'.emits) = 1
               /\ last'.emits[1].ev = [type |-> "delete", documentId |-> id]
          ELSE /\ last'.emits = <<>>
               /\ last'.log = <<>>]_vars

\* A delete removed a document and a subscriber got its one delete event,
\* with another document still held.
C17_Witness ==
  /\ last.op = "delete"
  /\ Len(last.emits) = 1
  /\ Len(last.log) >= 1
  /\ last.log[1].ev = [type |-> "delete", documentId |-> last.id]
  /\ ~Has(documents, last.id)
  /\ LiveIds # {}

\* C18: the client's create(document) on an id the Store does not hold
\* stores the document, with its timestamps filled in, and emits one create
\* event carrying the stored document; on an id the Store holds it raises,
\* emits no event and leaves the Store as it was.
C18_CreateEmitsStoredDocument ==
  [][\A d \in DocInputs : CreatingDoc(d) =>
       IF Has(documents, d._id)
       THEN /\ last'.err = "duplicate"
            /\ last'.emits = <<>>
            /\ last'.log = <<>>
            /\ documents' = documents
       ELSE /\ last'.err = "none"
            /\ documents' = [documents EXCEPT ![d._id] = last'.ret]
            /\ last'.ret = Spread(d, [_createdAt |-> now, _updatedAt |-> now])
            /\ Len(last'.emits) = 1
            /\ last'.emits[1].ev = [type |-> "create", documentId |-> d._id,
                                    document |-> documents'[d._id]]]_vars

\* A create stored a document and a subscriber got the create event with
\* the document as stored, timestamps included.
C18_Witness ==
  /\ last.op = "create"
  /\ last.err = "none"
  /\ Len(last.log) >= 1
  /\ last.log[1].ev.type = "create"
  /\ last.log[1].ev.document = documents[last.id]
  /\ "_createdAt" \notin DOMAIN last.arg
  /\ documents[last.id]._createdAt = now

\* The type that the query of an active subscription filters on, literal
\* or handed in as a parameter; NoId when it is no such query.
FilteredType(sub) ==
  IF \E ty \in Types : sub.query = QType(ty)
  THEN CHOOSE ty \in Types : sub.query = QType(ty)
  ELSE IF sub.query = QParam("t") /\ sub.params # Undefined
            /\ "t" \in DOMAIN sub.params
  THEN sub.params.t
  ELSE NoId

GotEvent(log, n, s) == \E i \in 1..Len(log) : log[i].n = n /\ log[i].sub = s

\* C19: a subscriber to a listen filtered on type X, written literally or
\* with the parameter supplied, gets a create or update event exactly when
\* the event's document has type X, and gets every delete event.
C19_TypeListenerGetsTypeAndDeletes ==
  [][(last'.op \in {"create", "delete", "Transaction.commit"} /\ subs' = subs) =>
       \A n \in 1..Len(last'.emits), s \in 1..MaxSubs :
         (subs[s].state = "active" /\ FilteredType(subs[s]) # NoId)
           => LET ev == last'.emits[n].ev
              IN  GotEvent(last'.log, n, s)
                    <=> \/ ev.type = "delete"
                        \/ ev.document._type = FilteredType(subs[s])]_vars

\* A subscriber filtering on type t1 got the delete event of a document of
\* type t2, and a subscriber filtering on t2 by parameter got it as well.
C19_Witness ==
  /\ last.op = "delete"
  /\ last.id = "b"
  /\ \E i, j \in 1..Len(last.log) :
       /\ last.log[i].ev = [type |-> "delete", documentId |-> "b"]
       /\ subs[last.log[i].sub].query = QType("t1")
       /\ subs[last.log[j].sub].query = QParam("t")

\* C20: fetch and listen take every query string for the same shape: one
\* that fetch takes for an id is filtered by id in listen and the other way
\* round, and one that fetch takes for unsupported delivers no event
\* through listen.
C20_FetchAndListenAgreeOnShape ==
  \A s \in 1..MaxSubs :
    subs[s].state = "active" =>
      /\ FetchById(subs[s].query) <=> ListenById(subs[s].query)
      /\ Fetch(documents, subs[s].query, subs[s].params).shape = "unsupported"
           => \A i \in 1..Len(last.log) : last.log[i].sub # s

(***************************************************************************)
(* Claims about fetch, checked under SpecFetch.                            *)
(***************************************************************************)
Fetching(query, params) == last'.op = "fetch" /\ ClientFetch(query, params)

\* The documents of a collection, and the documents of a type the Store
\* holds.
Members(seq) == { seq[i] : i \in 1..Len(seq) }

OfType(ty) == { documents[k] : k \in { j \in Keys : Has(documents, j)
                                                   /\ documents[j]._type = ty } }

\* C21: in every Store, fetch of *[_type == $t] with params {t: X} returns
\* the documents of type X, the same as fetch of *[_type == "X"] does; with
\* params absent, or without a value for t, it returns an empty collection
\* and does not raise.
C21_ParamFetchEqualsLiteral ==
  [][\A p \in ParamInputs : Fetching(QParam("t"), p) =>
       /\ last'.err = "none"
       /\ IF p # Undefined /\ "t" \in DOMAIN p /\ p.t \in Types
          THEN /\ Members(last'.ret.many) = OfType(p.t)
               /\ Len(last'.ret.many) = Cardinality(OfType(p.t))
               /\ Members(last'.ret.many)
                    = Members(Fetch(documents, QType(p.t), Undefined).many)
          ELSE last'.ret.many = <<>>]_vars

\* A parameterized fetch returned the two documents of type t1 out of the
\* three the Store holds.
C21_Witness ==
  /\ last.op = "fetch"
  /\ last.arg.query = QParam("t")
  /\ last.arg.params = [t |-> "t1"]
  /\ Len(last.ret.many) = 2
  /\ Has(documents, "b")

C23_BareIdFetchIsLookup ==
  [][\A id \in Ids, p \in {Undefined, [t |-> "t1"]} :
       (id = "a" \/ p = Undefined) /\ Fetching(QId(id), p) =>
         /\ last'.err = "none"
         /\ last'.ret.shape = "id"
         /\ last'.ret.one = documents[id]
         /\ last'.ret.many = <<>>
         /\ documents' = documents]_vars

\* A fetch by id returned undefined for an id the Store does not hold while
\* it holds documents of every type.
C23_Witness ==
  /\ last.op = "fetch"
  /\ last.arg.query = QId("a")
  /\ last.ret.one = Undefined
  /\ Has(documents, "b")
  /\ Has(documents, SpacedId)

(***************************************************************************)
(* assets.upload.  A file is a directory and a name; the name the client   *)
(* gives a blob is the asset id followed by the extension, kept here as    *)
(* the pair of the two, and the url is a folder and that name.  fault      *)
(* names the one file-system call of the upload that throws, if any.       *)
(***************************************************************************)
\* this.assetsDirectory = path.join(process.cwd(), 'local_assets')
assetsDirectory(cfg) == "local_assets"

\* path.extname, on the names that are uploaded.
extname(name) ==
  IF name \in {"x.txt", "y.txt"} THEN ".txt" ELSE ""

\* opts.filename || dflt, and likewise for opts.contentType
OptOr(opts, f, dflt) == IF f \in DOMAIN opts /\ opts[f] # "" THEN opts[f] ELSE dflt

Faults == {"none", "stat", "mkdir", "write", "unlink"}

\* Step 5 without the clean-up of the saved file.
StoreAssetDocument_no_cleanup(m, fs, file, assetDocument, fault, time) ==
  LET r == Store_create(m.docs, assetDocument, time)
  IN  IF r.err = "none"
      THEN [m |-> [m EXCEPT !.docs = r.docs, !.ret = assetDocument], disk |-> fs]
      ELSE [m |-> [m EXCEPT !.err = "metadata"], disk |-> fs]

\* Step 5: this.store.create(assetDocument); when it throws, unlinkSync of
\* the saved file inside a try of its own, then the metadata error.
StoreAssetDocument(m, fs, file, assetDocument, fault, time) ==
  LET r == Store_create(m.docs, assetDocument, time)
  IN  IF r.err = "none"
      THEN [m |-> [m EXCEPT !.docs = r.docs, !.ret = assetDocument], disk |-> fs]
      ELSE [m |-> [m EXCEPT !.err = "metadata"],
            disk |-> IF fault = "unlink" THEN fs
                     ELSE [fs EXCEPT !.files = @ \ {file}]]

Assets_upload(m, fs, cfg, assetType, assetId, body, opts, fault, time) ==
  LET fail(e) == [m |-> [m EXCEPT !.err = e], disk |-> fs]
      originalFilename ==
        IF body.kind = "path" THEN OptOr(opts, "filename", body.name)
        ELSE OptOr(opts, "filename", "buffer-upload")
      mimeType ==
        IF body.kind = "path" THEN OptOr(opts, "contentType", body.type)
        ELSE OptOr(opts, "contentType", "application/octet-stream")
      fileExtension ==
        IF body.kind = "path" /\ extname(originalFilename) = ""
        THEN extname(body.path)
        ELSE extname(originalFilename)
      dir == assetsDirectory(cfg)
      localFilename == [id |-> assetId, ext |-> fileExtension]
      localFilePath == [dir |-> dir, name |-> localFilename]
      assetUrl == [folder |-> "local_assets", name |-> localFilename]
      assetDocument ==
        [_id |-> assetId,
         _type |-> IF assetType = "image" THEN "sanity.imageAsset" ELSE "sanity.fileAsset",
         _createdAt |-> time, _updatedAt |-> time,
         originalFilename |-> originalFilename, size |-> body.size,
         mimeType |-> mimeType, url |-> assetUrl]
      made == [fs EXCEPT !.dirs = @ \cup {dir}]
      saved == [made EXCEPT !.files = @ \cup {localFilePath}]
  IN  IF body.kind = "other" THEN fail("unsupported")
      ELSE IF body.kind = "path" /\ fault = "stat" THEN fail("stat")
      ELSE IF originalFilename = "" THEN fail("nofilename")
      ELSE IF dir \notin fs.dirs /\ fault = "mkdir" THEN fail("mkdir")
      ELSE IF fault = "write" THEN [m |-> [m EXCEPT !.err = "write"], disk |-> made]
      ELSE StoreAssetDocument(m, saved, localFilePath, assetDocument, fault, time)

\* What is uploaded: a file by its path, under every fault; a file whose
\* name and path tell nothing, without and with a name in the options; a
\* Buffer; and a value that is none of the supported bodies.
PathBody == [kind |-> "path", path |-> "x.txt", name |-> "x.txt", type |-> "text/plain",
             size |-> 1]

RawBody == [kind |-> "path", path |-> "raw", name |-> "", type |-> "text/plain", size |-> 1]

BufferBody == [kind |-> "buffer", size |-> 2]

OtherBody == [kind |-> "other", size |-> 0]

UploadInputs ==
  { [body |-> PathBody, opts |-> NoFields, fault |-> f] : f \in Faults }
  \cup { [body |-> RawBody, opts |-> o, fault |-> "none"] :
           o \in {NoFields, [filename |-> "y.txt"]} }
  \cup { [body |-> BufferBody, opts |-> NoFields, fault |-> f] : f \in {"none", "unlink"} }
  \cup { [body |-> OtherBody, opts |-> NoFields, fault |-> "none"] }

Upload(assetType, assetId, body, opts, fault) ==
  LET r == Assets_upload(Machine(<<>>), disk, config, assetType, assetId, body, opts,
                         fault, now)
  IN  /\ Done("upload", assetId,
              [assetType |-> assetType, body |-> body, opts |-> opts, fault |-> fault], r.m)
      /\ disk' = r.disk
      /\ UNCHANGED <<now, tx, config, peer, queue>>

\* What the client is constructed with.
ConfigInputs == { NoFields, [assetsDirectory |-> "local_assets_test_client"] }

InitAssets ==
  /\ documents = NewStore
  /\ now = 1
  /\ listeners = <<>>
  /\ subs = [s \in 1..MaxSubs |-> NoSub]
  /\ tx = NoTx
  /\ last = Outcome("new", NoId, Undefined, [err |-> "none", ret |-> Undefined])
  /\ config \in { Spread(DEFAULT_CONFIG, c) : c \in ConfigInputs }
  /\ disk = NoDisk
  /\ peer = NewPeer
  /\ queue = <<>>

AssetTypes == {"file", "image"}

\* Uploads under either construction, watched by a listener on the file
\* asset type or on everything; an asset document can be deleted again.
NextAssets ==
  \/ \E ty \in AssetTypes, u \in UploadInputs :
       \E id \in AssetIds(ty) : Upload(ty, id, u.body, u.opts, u.fault)
  \/ \E id \in AssetIds("file") : ClientDelete(id)
  \/ \E q \in {QAll, QType("sanity.fileAsset")} : Subscribe({1}, q, Undefined, Recorder)

SpecAssets == InitAssets /\ [][NextAssets]_vars

(***************************************************************************)
(* Asset upload.                                                           *)
(***************************************************************************)
\* C24: a successful asset upload emits exactly one create event, whose
\* document id is the asset's id, and a subscriber filtering on the asset
\* document's type (or on nothing) is called with it.
C24_UploadEmitsOneCreate ==
  (last.op = "upload" /\ last.err = "none") =>
    /\ Len(last.emits) = 1
    /\ last.emits[1].ev.type = "create"
    /\ last.emits[1].ev.documentId = last.ret._id
    /\ \A s \in 1..MaxSubs :
         (subs[s].state = "active" /\ subs[s].query \in {QAll, QType(last.ret._type)})
           => GotEvent(last.log, 1, s)

\* The file that an upload with these arguments saves.
SavedFile(id, arg) ==
  [dir |-> assetsDirectory(config),
   name |-> [id |-> id,
             ext |-> IF arg.body.kind = "path" /\ extname(OptOr(arg.opts, "filename", arg.body.name)) = ""
                     THEN extname(arg.body.path)
                     ELSE IF arg.body.kind = "path"
                     THEN extname(OptOr(arg.opts, "filename", arg.body.name))
                     ELSE extname(OptOr(arg.opts, "filename", "buffer-upload"))]]

\* An upload that got as far as storing the metadata document.
ReachedStore(o) == o.op = "upload" /\ o.err \notin {"unsupported", "stat", "nofilename", "mkdir", "write"}

\* C25: when the Store refuses the metadata document, the upload deletes
\* the blob it has just written unless the deletion itself fails, raises
\* the metadata error either way and leaves the Store as it was; after a
\* successful upload the Store holds the returned document and the
\* directory holds its blob.
C25_MetadataFailureCleansUp ==
  [][ReachedStore(last') =>
       IF Has(documents, last'.id)
       THEN /\ last'.err = "metadata"
            /\ documents' = documents
            /\ last'.emits = <<>>
            /\ disk'.files = IF last'.arg.fault = "unlink"
                             THEN disk.files \cup {SavedFile(last'.id, last'.arg)}
                             ELSE disk.files \ {SavedFile(last'.id, last'.arg)}
       ELSE /\ last'.err = "none"
            /\ documents'[last'.id] = last'.ret
            /\ \A k \in Keys \ {last'.id} : documents'[k] = documents[k]
            /\ \E f \in disk'.files : f.name = last'.ret.url.name]_vars

C25_Witness ==
  /\ last.op = "upload"
  /\ last.err = "metadata"
  /\ last.arg.fault = "unlink"
  /\ last.arg.body.kind = "buffer"
  /\ SavedFile(last.id, last.arg) \in disk.files
  /\ documents[last.id].originalFilename = "x.txt"

\* C26: a client constructed with assetsDirectory D writes the blob into D
\* and returns a url under D; the default folder is used only when no
\* directory was configured.
C26_UploadUsesConfiguredDirectory ==
  (last.op = "upload" /\ last.err = "none") =>
    LET D == IF "assetsDirectory" \in DOMAIN config THEN config.assetsDirectory
             ELSE "local_assets"
    IN  /\ [dir |-> D, name |-> last.ret.url.name] \in disk.files
        /\ last.ret.url.folder = D

(***************************************************************************)
(* A second client of the same process.  Its subscription has a number     *)
(* that no subscription of the first client has, so that the log of a      *)
(* dispatch tells whose subscriber was called.                             *)
(***************************************************************************)
\* Both clients on one emitter.
PeerMachine_shared_emitter(muts) ==
  [Machine(muts) EXCEPT !.docs = peer.docs,
                        !.listeners = peer.listeners \o listeners,
                        !.subs = peer.subs @@ subs]

\* The operations of the second client run on its own store and
\* eventEmitter fields.
PeerMachine(muts) ==
  [Machine(muts) EXCEPT !.docs = peer.docs,
                        !.listeners = peer.listeners,
                        !.subs = peer.subs]

PeerDone(op, id, arg, m) ==
  /\ peer' = [docs |-> m.docs,
              listeners |-> m.listeners,
              subs |-> [s \in {PeerSlot} |-> Ended(m.subs[s])]]
  /\ last' = [op |-> op, id |-> id, arg |-> arg, err |-> m.err, ret |-> m.ret,
              results |-> m.results, emits |-> m.emits, log |-> m.log,
              caught |-> m.caught]

\* The second client is given the same ids with other contents.
PeerDocInputs == { [_id |-> "a", _type |-> "t2"], [_id |-> "b", _type |-> "t1"] }

PeerCreate(document) ==
  /\ PeerDone("peer.create", document._id, document,
              Client_create(PeerMachine(<<>>), document, now))
  /\ UNCHANGED <<documents, now, listeners, subs, tx, config, disk, queue>>

PeerDelete(id) ==
  /\ PeerDone("peer.delete", id, Undefined, Client_delete(PeerMachine(<<>>), id))
  /\ UNCHANGED <<documents, now, listeners, subs, tx, config, disk, queue>>

PeerFetch(query, params) ==
  /\ last' = Outcome("peer.fetch", NoId, [query |-> query, params |-> params],
                     [err |-> "none", ret |-> Fetch(peer.docs, query, params)])
  /\ UNCHANGED <<documents, now, listeners, subs, tx, config, disk, peer, queue>>

PeerSubscribe(query, params, observer) ==
  /\ peer.subs[PeerSlot].state = "unused"
  /\ peer' = [peer EXCEPT !.subs[PeerSlot] = [state |-> "active", query |-> query,
                                              params |-> params, observer |-> observer],
                          !.listeners = on(@, PeerSlot)]
  /\ last' = Outcome("peer.subscribe", NoId, Undefined, [err |-> "none", ret |-> Undefined])
  /\ UNCHANGED <<documents, now, listeners, subs, tx, config, disk, queue>>

PeerQueries == {QAll, QId("a"), QId("b")}

\* Two clients, each creating, deleting, fetching and listening.
NextPeers ==
  \/ \E d \in DocInputs : ClientCreate(d)
  \/ \E id \in Ids : ClientDelete(id)
  \/ \E q \in PeerQueries : ClientFetch(q, Undefined)
  \/ Subscribe({1}, QAll, Undefined, Recorder)
  \/ \E d \in PeerDocInputs : PeerCreate(d)
  \/ \E id \in Ids : PeerDelete(id)
  \/ \E q \in PeerQueries : PeerFetch(q, Undefined)
  \/ PeerSubscribe(QAll, Undefined, Recorder)

SpecPeers == Init /\ [][NextPeers]_vars

\* What fetch returns for one of PeerQueries on a Store.
Fetched(docs, query) ==
  IF query = QAll
  THEN [k \in Keys |-> docs[k]]
  ELSE [k \in Keys |-> IF query = QId(k) THEN docs[k] ELSE Undefined]

Returned(ret, query) ==
  IF query = QAll
  THEN [k \in Keys |-> IF \E i \in 1..Len(ret.many) : ret.many[i]._id = k
                       THEN CHOOSE d \in Members(ret.many) : d._id = k
                       ELSE Undefined]
  ELSE [k \in Keys |-> IF query = QId(k) THEN ret.one ELSE Undefined]

\* C27: two clients are independent.  An operation on one leaves the
\* documents, listeners and subscriptions of the other as they were, calls
\* subscribers of its own client only, and fails or succeeds by what its own
\* Store holds; a fetch on a client returns the documents that were written
\* through that client.
C27_ClientsAreIndependent ==
  [][/\ last'.op \in {"create", "delete", "fetch", "subscribe"} =>
          /\ peer' = peer
          /\ \A i \in 1..Len(last'.log) : last'.log[i].sub \in 1..MaxSubs
     /\ last'.op \in {"peer.create", "peer.delete", "peer.fetch", "peer.subscribe"} =>
          /\ documents' = documents /\ listeners' = listeners /\ subs' = subs
          /\ \A i \in 1..Len(last'.log) : last'.log[i].sub = PeerSlot
     /\ last'.op = "create" =>
          /\ last'.err = "none" <=> ~Has(documents, last'.id)
          /\ last'.err = "none" =>
               Len(last'.log) = (IF subs[1].state = "active" THEN 1 ELSE 0)
     /\ last'.op = "peer.create" =>
          /\ last'.err = "none" <=> ~Has(peer.docs, last'.id)
          /\ last'.err = "none" =>
               Len(last'.log) = (IF peer.subs[PeerSlot].state = "active" THEN 1 ELSE 0)
     /\ last'.op = "fetch" =>
          Returned(last'.ret, last'.arg.query) = Fetched(documents, last'.arg.query)
     /\ last'.op = "peer.fetch" =>
          Returned(last'.ret, last'.arg.query) = Fetched(peer.docs, last'.arg.query)]_vars

\* Both clients hold a document "a", each its own, both have a subscriber,
\* and a create on the second client has just called the second client's
\* subscriber.
C27_Witness ==
  /\ last.op = "peer.create"
  /\ last.err = "none"
  /\ last.id = "b"
  /\ Len(last.log) = 1
  /\ subs[1].state = "active"
  /\ Has(documents, "a") /\ Has(peer.docs, "a")
  /\ documents["a"] # peer.docs["a"]
  /\ ~Has(documents, "b")

(***************************************************************************)
(* Calls that are not awaited.  An async method runs up to its first       *)
(* await when it is called, and every await of the client is               *)
(* `await this.store.f(...)`: the Store method has run, and changed the     *)
(* Map, by the time the caller is suspended.  What follows the await runs  *)
(* as a job of its own, and jobs run in the order in which they were       *)
(* queued.  Between two jobs the caller may make further calls.            *)
(*                                                                         *)
(* A suspended call is a record: kind and id of the call, r what the       *)
(* Store method returned or threw, n the rank of that Store call among     *)
(* those not yet resumed.  For a commit, mutation is the loop variable, i  *)
(* the number of array elements the iterator has passed, results the       *)
(* local array; det tells that this.mutations has been assigned since the  *)
(* loop began, and muts is then the array that the loop still iterates.    *)
(***************************************************************************)
MaxInFlight == 2

NoMutation == [kind |-> "none"]

Suspended(kind, id, r) ==
  [kind |-> kind, id |-> id, r |-> [err |-> r.err, ret |-> r.ret], n |-> 0,
   mutation |-> NoMutation, i |-> 0, results |-> <<>>, det |-> FALSE, muts |-> <<>>]

\* create() up to its await: the Store call has been made.
Client_create_start(m, document, time) ==
  LET r == Store_create(m.docs, Stamp(document, time), time)
  IN  [m |-> [m EXCEPT !.docs = r.docs], cont |-> <<Suspended("create", document._id, r)>>,
       assigned |-> FALSE]

\* create() after its await.
Client_create_resume(m, c) ==
  IF c.r.err # "none"
  THEN [m |-> [m EXCEPT !.err = c.r.err], cont |-> <<>>, assigned |-> FALSE]
  ELSE [m |-> [emit(m, [type |-> "create", documentId |-> c.r.ret._id,
                        document |-> c.r.ret])
                 EXCEPT !.ret = c.r.ret],
        cont |-> <<>>, assigned |-> FALSE]

\* delete() up to its await.
Client_delete_start(m, id) ==
  LET r == Store_delete(m.docs, id)
  IN  [m |-> [m EXCEPT !.docs = r.docs], cont |-> <<Suspended("delete", id, r)>>,
       assigned |-> FALSE]

\* delete() after its await.
Client_delete_resume(m, c) ==
  LET m1 == [m EXCEPT !.results = <<[id |-> IF c.r.ret # Undefined THEN c.r.ret._id
                                            ELSE c.id]>>]
  IN  [m |-> IF c.r.ret # Undefined
             THEN emit(m1, [type |-> "delete", documentId |-> c.id])
             ELSE m1,
       cont |-> <<>>, assigned |-> FALSE]

\* The array that the loop of a commit iterates.
Iterated(m, c) == IF c.det THEN c.muts ELSE m.muts

\* The head of the for...of loop of a commit that has passed c.i elements:
\* past the end the results are returned, and assigned tells that
\* this.mutations = [] is executed on the way; else the Store call of the
\* next mutation is made and the commit suspended.  m.muts is
\* this.mutations.
commit_iterate(m, c) ==
  IF c.i >= Len(Iterated(m, c))
  THEN [m |-> [m EXCEPT !.results = c.results], cont |-> <<>>, assigned |-> TRUE]
  ELSE LET mutation == Iterated(m, c)[c.i + 1]
           r == Apply(m.docs, mutation, now)
       IN  [m |-> [m EXCEPT !.docs = r.docs, !.results = <<>>],
            cont |-> <<[c EXCEPT !.i = @ + 1, !.mutation = mutation,
                                 !.r = [err |-> r.err, ret |-> r.ret]]>>,
            assigned |-> FALSE]

\* A commit that makes the failed Store call anew.
commit_resume_retry(m, c) ==
  IF c.r.err # "none"
  THEN [m |-> m, cont |-> <<c>>, assigned |-> FALSE]
  ELSE LET results == Append(c.results, Result(c.mutation, c.r))
       IN  commit_iterate(emit(m, Event(c.mutation, c.r)), [c EXCEPT !.results = results])

\* commit() after an await: the catch block when the Store call threw, else
\* the result is pushed, the event emitted and the loop goes on.
commit_resume(m, c) ==
  IF c.r.err # "none"
  THEN [m |-> [m EXCEPT !.err = c.r.err], cont |-> <<>>, assigned |-> FALSE]
  ELSE LET results == Append(c.results, Result(c.mutation, c.r))
       IN  commit_iterate(emit(m, Event(c.mutation, c.r)), [c EXCEPT !.results = results])

Max(S) == CHOOSE x \in S : \A y \in S : y <= x

Min(S) == CHOOSE x \in S : \A y \in S : x <= y

Ranks(q) == {q[j].n : j \in 1..Len(q)}

\* The ranks count from the oldest Store call that is not yet resumed.
Renumber(q) == [j \in 1..Len(q) |-> [q[j] EXCEPT !.n = @ - (Min(Ranks(q)) - 1)]]

\* this.mutations = []: a loop that iterates the array that was
\* this.mutations goes on iterating that array.
Detach(q, old) ==
  [j \in 1..Len(q) |->
     IF q[j].kind = "commit" /\ ~q[j].det
     THEN [q[j] EXCEPT !.det = TRUE, !.muts = old]
     ELSE q[j]]

\* What a call that ran up to an await or to its end leaves behind; rest
\* are the other suspended calls.
TxAfter(r) ==
  IF r.assigned
  THEN [tx EXCEPT !.mutations = <<>>, !.calls = 0, !.done = @ \/ r.m.results # <<>>]
  ELSE [tx EXCEPT !.mutations = r.m.muts]

QueueAfter(r, rest) ==
  LET others == IF r.assigned THEN Detach(rest, r.m.muts) ELSE rest
      ranked == [j \in 1..Len(r.cont) |->
                   [r.cont[j] EXCEPT !.n = Max(Ranks(others) \cup {0}) + 1]]
  IN  Renumber(others \o ranked)

Settle(op, id, arg, r, rest) ==
  /\ Done(op, id, arg, r.m)
  /\ tx' = TxAfter(r)
  /\ queue' = QueueAfter(r, rest)

CanStart == Len(queue) < MaxInFlight

StartCreate(document) ==
  /\ CanStart
  /\ Settle("start.create", document._id, document,
            Client_create_start(Machine(tx.mutations), document, now), queue)
  /\ UNCHANGED <<now, config, disk, peer>>

StartDelete(id) ==
  /\ CanStart
  /\ Settle("start.delete", id, Undefined,
            Client_delete_start(Machine(tx.mutations), id), queue)
  /\ UNCHANGED <<now, config, disk, peer>>

StartCommit ==
  /\ CanStart
  /\ tx.live
  /\ Settle("start.commit", NoId, [calls |-> tx.calls],
            commit_iterate(Machine(tx.mutations), Suspended("commit", NoId, [err |-> "none", ret |-> Undefined])),
            queue)
  /\ UNCHANGED <<now, config, disk, peer>>

\* The job that runs next is the one that was queued first.
NextJob_last(q) == Len(q)

NextJob(q) == 1

Without(q, j) == SubSeq(q, 1, j - 1) \o SubSeq(q, j + 1, Len(q))

Resume ==
  /\ queue # <<>>
  /\ LET c == queue[NextJob(queue)]
         m == Machine(tx.mutations)
         r == IF c.kind = "create" THEN Client_create_resume(m, c)
              ELSE IF c.kind = "delete" THEN Client_delete_resume(m, c)
              ELSE commit_resume(m, c)
     IN  Settle("resume", c.id, [c |-> c, fin |-> r.cont = <<>>], r,
                Without(queue, NextJob(queue)))
  /\ UNCHANGED <<now, config, disk, peer>>

\* const tx = client.transaction() has been executed.
InitAsync ==
  /\ documents = NewStore
  /\ now = 1
  /\ listeners = <<>>
  /\ subs = [s \in 1..MaxSubs |-> NoSub]
  /\ tx = NewTx
  /\ last = Outcome("transaction", NoId, Undefined, [err |-> "none", ret |-> Undefined])
  /\ config = DEFAULT_CONFIG
  /\ disk = NoDisk
  /\ peer = NewPeer
  /\ queue = <<>>

MaxPending == 2

CanPend == Len(tx.mutations) < MaxPending

\* Calls on the client and on one transaction, none of them awaited,
\* watched by one plain observer.
NextAsync ==
  \/ \E d \in FacadeDocInputs : StartCreate(d)
  \/ \E id \in PatchIds : StartDelete(id)
  \/ StartCommit
  \/ Resume
  \/ CanPend /\ TxCreate([_id |-> "a", _type |-> "t2"])
  \/ CanPend /\ \E id \in PatchIds : TxPatch(id, [title |-> "y"])
  \/ CanPend /\ \E id \in PatchIds : TxDelete(id)
  \/ Subscribe({1}, QAll, Undefined, Recorder)

SpecAsync == InitAsync /\ [][NextAsync]_vars

\* client.listen('*').subscribe(observer) has been executed as well.
InitRace ==
  /\ documents = NewStore
  /\ now = 1
  /\ listeners = on(<<>>, 1)
  /\ subs = [s \in 1..MaxSubs |->
               IF s = 1
               THEN [state |-> "active", query |-> QAll, params |-> Undefined,
                     observer |-> Recorder]
               ELSE NoSub]
  /\ tx = NewTx
  /\ last = Outcome("subscribe", NoId, Undefined, [err |-> "none", ret |-> Undefined])
  /\ config = DEFAULT_CONFIG
  /\ disk = NoDisk
  /\ peer = NewPeer
  /\ queue = <<>>

\* Creates and deletes of one id that overlap, through the facade and
\* through commits of one transaction.
NextRace ==
  \/ StartCreate([_id |-> "a", _type |-> "t1"])
  \/ \E id \in PatchIds : StartDelete(id)
  \/ StartCommit
  \/ Resume
  \/ CanPend /\ TxCreate([_id |-> "a", _type |-> "t2"])
  \/ CanPend /\ \E id \in PatchIds : TxDelete(id)

SpecRace == InitRace /\ [][NextRace]_vars

(***************************************************************************)
(* Calls that overlap.                                                     *)
(***************************************************************************)
IsCommit(c) == c.kind = "commit"

\* The step is made by the call whose job is j-th in the queue.
ResumesJob(j) == last'.op = "resume" /\ j = NextJob(queue)

(***************************************************************************)
(* One commit at a time, watched by an observer that may chain a delete    *)
(* onto the transaction whenever it is called.  The caller commits a       *)
(* transaction once and drops one whose commit failed, so the elements     *)
(* that the loop has passed and the results it has gathered are read by    *)
(* nothing that follows: Forget leaves them out, and the pending array     *)
(* holds what the loop has yet to reach.                                   *)
(***************************************************************************)
Chainer == [kind |-> "chain", target |-> 0]

Forget(r) ==
  IF r.cont = <<>>
  THEN [r EXCEPT !.m.results = <<>>]
  ELSE [r EXCEPT !.m.muts = SubSeq(@, r.cont[1].i + 1, Len(@)),
                 !.cont = <<[r.cont[1] EXCEPT !.i = 0, !.results = <<>>]>>]

InFlight == queue # <<>>

\* The parity of the jobs run so far: it tells a job from the one before it.
Turn == IF last.op = "resume" THEN last.arg.turn ELSE 0

LiveCommit ==
  /\ ~InFlight
  /\ tx.live
  /\ LET r == Forget(commit_iterate(Machine(tx.mutations),
                                     Suspended("commit", NoId, [err |-> "none", ret |-> Undefined])))
     IN  /\ Done("start.commit", NoId, [calls |-> tx.calls], r.m)
         /\ tx' = TxAfter(r)
         /\ queue' = QueueAfter(r, queue)
  /\ UNCHANGED <<now, config, disk, peer>>

LiveResume ==
  /\ InFlight
  /\ \E c \in {queue[NextJob(queue)]} :
       \E r \in {Forget(commit_resume(Machine(tx.mutations), c))} :
         /\ Done("resume", c.id, [c |-> c, fin |-> r.cont = <<>>, turn |-> 1 - Turn], r.m)
         /\ tx' = [TxAfter(r) EXCEPT !.live = r.m.err = "none"]
         /\ queue' = QueueAfter(r, Without(queue, NextJob(queue)))
  /\ UNCHANGED <<now, config, disk, peer>>

NextLive ==
  \/ LiveCommit
  \/ LiveResume
  \/ ~InFlight /\ ClientTransaction
  \/ CanPend /\ TxCreate([_id |-> "a", _type |-> "t2"])
  \/ CanPend /\ \E id \in PatchIds : TxDelete(id)
  \/ \E o \in {Recorder, Chainer} : Subscribe({1}, QAll, Undefined, o)
  \/ Unsubscribe(1)

\* A job that is queued is run.
SpecLive == InitAsync /\ [][NextLive]_vars /\ WF_vars(LiveResume)

Feeding == subs[1].state = "active" /\ subs[1].observer = Chainer

C31_OperationsRunToCompletion ==
  [][last'.op \in {"start.create", "start.delete", "start.commit", "resume"} =>
       \A j \in 1..Len(queue) :
         (IsCommit(queue[j]) /\ ~ResumesJob(j)
            /\ Len(IF queue[j].det THEN queue[j].muts ELSE tx.mutations) >= 2)
           => (documents' = documents /\ last'.emits = <<>>)]_vars

\* The Store call that commit c made for the p-th pending mutation changed
\* the Store.
AppliedBy(c, p) ==
  /\ IsCommit(c)
  /\ \/ p < c.i
     \/ /\ p = c.i
        /\ c.r.err = "none"
        /\ c.mutation.kind = "delete" => c.r.ret # Undefined

\* C32: when commit() is called twice on a transaction, no pending mutation
\* is applied to the Store by both calls.
C32_PendingConsumedOnce ==
  \A j, k \in 1..Len(queue) :
    (j < k /\ IsCommit(queue[j]) /\ IsCommit(queue[k]) /\ ~queue[j].det /\ ~queue[k].det)
      => \A p \in 1..Len(tx.mutations) : ~(AppliedBy(queue[j], p) /\ AppliedBy(queue[k], p))

\* The suspended call is a create of id, through the facade or as a step of
\* a commit, and ok tells whether its Store call succeeded.
CreateOf(c, id, ok) ==
  /\ \/ c.kind = "create" /\ c.id = id
     \/ IsCommit(c) /\ c.mutation.kind = "create" /\ c.mutation.document._id = id
  /\ ok <=> c.r.err = "none"

DeletedBy(c, id) ==
  /\ \/ c.kind = "delete" /\ c.id = id
     \/ IsCommit(c) /\ c.mutation.kind = "delete" /\ c.mutation.id = id
  /\ c.r.ret # Undefined

\* The step made a Store call and suspended on it.
Suspends ==
  \/ last'.op \in {"start.create", "start.delete"}
  \/ last'.op = "start.commit" /\ Len(queue') > Len(queue)
  \/ last'.op = "resume" /\ ~last'.arg.fin

Newest(q) == q[Len(q)]

\* C34: of two creates of one id that overlap, through the facade or as a
\* step of a commit, the second fails with the duplicate-id error and
\* changes nothing, the Store holds the document of the first, and when
\* they are resumed the first emits one create event and the second none.
C34_OverlappingCreatesOneWins ==
  [][/\ \A id \in PatchIds :
          (Suspends /\ \E ok \in BOOLEAN : CreateOf(Newest(queue'), id, ok)) =>
            /\ CreateOf(Newest(queue'), id, ~Has(documents, id))
            /\ Has(documents, id) =>
                 /\ Newest(queue').r.err = "duplicate"
                 /\ documents' = documents
            /\ ~Has(documents, id) => documents'[id] = Newest(queue').r.ret
            /\ \A j \in 1..Len(queue) :
                 (j = Len(queue) /\ ~ResumesJob(j) /\ CreateOf(queue[j], id, TRUE))
                   => /\ CreateOf(Newest(queue'), id, FALSE)
                      /\ documents'[id] = queue[j].r.ret
     /\ \A id \in PatchIds :
          \A j, k \in 1..Len(queue') :
            (j < k /\ CreateOf(queue'[j], id, TRUE) /\ CreateOf(queue'[k], id, TRUE))
              => \E d \in (j + 1)..(k - 1) : DeletedBy(queue'[d], id)
     /\ \A id \in PatchIds :
          (last'.op = "resume" /\ \E ok \in BOOLEAN : CreateOf(last'.arg.c, id, ok)) =>
            IF CreateOf(last'.arg.c, id, TRUE)
            THEN /\ Len(last'.emits) = 1
                 /\ last'.emits[1].ev = [type |-> "create", documentId |-> id,
                                         document |-> last'.arg.c.r.ret]
            ELSE /\ last'.emits = <<>>
                 /\ last'.err = "duplicate"]_vars

\* Two creates of "a" with different contents overlapped; the second, which
\* failed, has just been resumed and the Store holds the first one's
\* document.
C34_Witness ==
  /\ Len(queue) = 2
  /\ queue[1].kind = "create"
  /\ queue[1].r.err = "none"
  /\ IsCommit(queue[2])
  /\ queue[2].mutation.kind = "create"
  /\ queue[2].mutation.document._id = "a"
  /\ queue[2].r.err = "duplicate"
  /\ Has(documents, "a")
  /\ documents["a"]._type = "t1"

\* C35: the job that emits an event is the one whose Store call is the
\* oldest among the suspended calls, and the event is that of its own
\* mutation.
C35_EventsInOrderOfApplication ==
  [][(last'.op = "resume" /\ last'.emits # <<>>) =>
       /\ \A j \in 1..Len(queue) : last'.arg.c.n <= queue[j].n
       /\ Len(last'.emits) = 1
       /\ last'.emits[1].ev.documentId =
            (IF IsCommit(last'.arg.c) THEN TargetId(last'.arg.c.mutation)
             ELSE last'.arg.c.id)]_vars

\* A facade delete that overlapped a commit has emitted its event while a
\* later Store call of the commit is still suspended.
C35_Witness ==
  /\ last.op = "resume"
  /\ last.arg.c.kind = "delete"
  /\ Len(last.emits) = 1
  /\ Len(last.log) = 1
  /\ Len(queue) = 1
  /\ IsCommit(queue[1])
  /\ queue[1].i = 2

\* C36: when an event is handed to a subscriber the Store holds under its
\* documentId the document that the event carries, or nothing when the
\* event is a delete.
C36_StoreAgreesWithEvent ==
  \A i \in 1..Len(last.log) :
    LET e == last.log[i]
    IN  IF e.ev.type = "delete"
        THEN ~Has(e.seen, e.ev.documentId)
        ELSE e.seen[e.ev.documentId] = e.ev.document

\* The step is the end of a commit that succeeded.
CommitEnds ==
  /\ last'.err = "none"
  /\ \/ last'.op = "start.commit" /\ Len(queue') = Len(queue)
     \/ last'.op = "resume" /\ IsCommit(last'.arg.c) /\ last'.arg.fin

\* C37: a commit that succeeds has applied, last and in their order, the
\* mutations that are pending when it ends, those chained while it was in
\* progress included, and leaves the pending sequence empty.
C37_ChainedDuringCommitIsApplied ==
  [][CommitEnds =>
       /\ Len(last'.results) >= Len(tx.mutations)
       /\ \A p \in 1..Len(tx.mutations) :
            LET result == last'.results[Len(last'.results) - Len(tx.mutations) + p]
            IN  /\ result.operation = tx.mutations[p].kind
                /\ result.id = TargetId(tx.mutations[p])
       /\ tx'.mutations = <<>>]_vars

(***************************************************************************)
(* Claims about what a step may change, for calls that are awaited one     *)
(* after the other.                                                        *)
(***************************************************************************)
\* The Map as the j-th step of the call that has just ended found it.
HeldBefore(j) ==
  IF last'.op = "Transaction.commit"
  THEN DocsAfter(documents, tx.mutations, j - 1, now)
  ELSE documents

\* The Map as the j-th step of the call that has just ended left it.
HeldAfter(j) ==
  IF last'.op = "Transaction.commit"
  THEN DocsAfter(documents, tx.mutations, j, now)
  ELSE documents'

\* C38: every delete event names a document that the Store held right
\* before the step that emitted it, and that the step removed, for
\* client.delete and for the delete step of a commit.
C38_DeleteEventNamesRemoved ==
  [][\A j \in 1..Len(last'.emits) :
       last'.emits[j].ev.type = "delete"
         => /\ Has(HeldBefore(j), last'.emits[j].ev.documentId)
            /\ ~Has(HeldAfter(j), last'.emits[j].ev.documentId)]_vars

\* Every kind of call of the client, of its transaction and of a
\* subscription handle, on one document, one uploaded file and one observer.
NextFrame ==
  \/ ClientCreate([_id |-> "a", _type |-> "t1"])
  \/ ClientDelete("a")
  \/ \E id \in AssetIds("file") : Upload("file", id, BufferBody, NoFields, "none")
  \/ TxCommit
  \/ \E q \in {QAll, QId("a"), QType("t1")} : ClientFetch(q, Undefined)
  \/ \E id \in {"a", "b"} : ClientGetDocument(id)
  \/ Subscribe({1}, QAll, Undefined, Recorder)
  \/ Unsubscribe(1)
  \/ ClientTransaction
  \/ ClientPatch("a", [title |-> "y"])
  \/ TxCreate([_id |-> "b", _type |-> "t2"])
  \/ TxPatch("a", [title |-> "y"])
  \/ TxDelete("a")

SpecFrame == Init /\ [][NextFrame]_vars

\* The calls that the claim says change nothing, and those that may.
Readers ==
  { "fetch", "getDocument", "subscribe", "unsubscribe", "transaction", "patch",
    "Transaction.create", "Transaction.patch", "Transaction.delete" }

Writers == { "create", "delete", "upload", "Transaction.commit" }

\* C39: fetch, getDocument, subscribe, unsubscribe, transaction(),
\* client.patch and the chaining calls leave the documents of the Store as
\* they are and emit no event; a step that changes the documents is a
\* facade create, a facade delete, an upload or a commit.
C39_OnlyWritersChangeTheStore ==
  [][/\ last'.op \in Readers
          => documents' = documents /\ last'.emits = <<>> /\ last'.log = <<>>
     /\ documents' # documents => last'.op \in Writers]_vars

\* A delete of a held document has been chained while an observer was
\* subscribed: the document is still held and the observer was not called.
C39_Witness ==
  /\ last.op = "Transaction.delete"
  /\ last.id = "a"
  /\ Has(documents, "a")
  /\ subs[1].state = "active"
  /\ tx.mutations # <<>>

====
